---- MODULE Spec2Model ----
(***************************************************************************)
(* State-machine model of the SGA workcover dashboard (src/app.py) and of  *)
(* the return-to-work scheduler and the field rendering of                 *)
(* src/doc_generator.py.                                                   *)
(*                                                                         *)
(* Every handler of the Streamlit script is one action.  The persistent    *)
(* store is the tables the handlers read and write (cases, certificates,   *)
(* terminations, payroll_entries, activity_log, documents,                 *)
(* generated_documents, incident_details, doctor_details); a table with an *)
(* AUTOINCREMENT id is a sequence, the id of a row being its index.        *)
(* `form` is the page the session is on together with the values its       *)
(* widgets hold, `view` is what the last handler rendered (its local       *)
(* variables at its end), `today` is date.today().                         *)
(*                                                                         *)
(* Arithmetic is exact.  Money is held in MoneyUnit-ths of a cent so that  *)
(* every product with a percentage and every division by 5 the code makes  *)
(* is an exact integer; hours are held in HourUnit-ths of an hour so that  *)
(* the thirds of the progressive schedule are exact integers.  The input   *)
(* grids are chosen so that no value lies on a rounding tie, where the     *)
(* float and the exact result could differ; the two no-capacity            *)
(* compensation formulas are computed in binary64 floats as well           *)
(* (FloatMul, FloatDivInt), as Python computes them.                       *)
(***************************************************************************)
EXTENDS Integers, Sequences, FiniteSets, TLC

VARIABLES today, form, view, cases, certificates, terminations, payroll_entries, activity_log, documents, generated_documents, incident_details, doctor_details

vars == <<today, form, view, cases, certificates, terminations, payroll_entries, activity_log, documents, generated_documents, incident_details, doctor_details>>

\* The tables only the New Case wizard and the document pages write.
case_files == <<documents, generated_documents, incident_details, doctor_details>>

store == <<cases, certificates, terminations, payroll_entries, activity_log, case_files>>

\* A NULL column / Python None where a number is expected, and a present number.
NULL == <<>>

Some(x) == <<x>>

\* What a page shows before any form was submitted.
NoView == [kind |-> "none"]

\* builtin max / min / abs
Max(a, b) == IF a >= b THEN a ELSE b

Min(a, b) == IF a <= b THEN a ELSE b

Abs(a) == IF a < 0 THEN -a ELSE a

(***************************************************************************)
(* Dates.  A date is <<year, month, day>>; datetime.date subtraction is    *)
(* the difference of proleptic Gregorian ordinals.                         *)
(***************************************************************************)
IsLeap(y) == (y % 4 = 0) /\ ((y % 100 # 0) \/ (y % 400 = 0))

DaysInMonth(y, m) ==
    IF m = 2 THEN (IF IsLeap(y) THEN 29 ELSE 28)
    ELSE IF m \in {4, 6, 9, 11} THEN 30 ELSE 31

DaysBeforeYear(y) ==
    365 * (y - 1) + ((y - 1) \div 4) - ((y - 1) \div 100) + ((y - 1) \div 400)

RECURSIVE DaysBeforeMonth(_, _)
DaysBeforeMonth(y, m) ==
    IF m <= 1 THEN 0 ELSE DaysBeforeMonth(y, m - 1) + DaysInMonth(y, m - 1)

\* date.toordinal()
Ordinal(dt) == DaysBeforeYear(dt[1]) + DaysBeforeMonth(dt[1], dt[2]) + dt[3]

\* (a - b).days
DaysBetween(a, b) == Ordinal(a) - Ordinal(b)

(***************************************************************************)
(* Values handed to coc_status.  A str is modelled by its form: the empty  *)
(* string, a text "Y-M-D" of three numbers (which need not name a real     *)
(* day), or any other text.  None is Python's None; a float is the NaN     *)
(* pandas gives for a NULL column.                                         *)
(***************************************************************************)
FirstYear == 2024

LastYear == 2025

None == [type |-> "NoneType", form |-> "none", y |-> 0, m |-> 0, d |-> 0]

EmptyStr == [type |-> "str", form |-> "empty", y |-> 0, m |-> 0, d |-> 0]

OtherStr == [type |-> "str", form |-> "other", y |-> 0, m |-> 0, d |-> 0]

NaN == [type |-> "float", form |-> "nan", y |-> 0, m |-> 0, d |-> 0]

YmdStr(y, m, d) == [type |-> "str", form |-> "ymd", y |-> y, m |-> m, d |-> d]

YmdStrings == {YmdStr(y, m, d) : y \in FirstYear..LastYear, m \in 0..13, d \in 0..32}

CertToInputs == {None, EmptyStr, OtherStr, NaN} \cup YmdStrings

\* The dates date.today() takes in the model: around a month end, a leap
\* day and a year end.
TodayDates == {<<2024, 2, 25>>, <<2024, 12, 28>>, <<2025, 6, 15>>}

\* `not x`: None and '' are falsy, every other str and NaN are truthy.
Falsy(x) == x.type = "NoneType" \/ (x.type = "str" /\ x.form = "empty")

\* datetime.strptime(s, "%Y-%m-%d") succeeds (else ValueError / TypeError)
Parseable(s) ==
    /\ s.type = "str"
    /\ s.form = "ymd"
    /\ s.y \in 1..9999
    /\ s.m \in 1..12
    /\ s.d \in 1..DaysInMonth(s.y, s.m)

\* datetime.strptime(s, "%Y-%m-%d").date()
ParseDate(s) == <<s.y, s.m, s.d>>

\* A plausible slip: the day the certificate ends already counts as expired.
IsOverdue_inclusive(delta) == delta <= 0

\* The branch `delta < 0` of coc_status.
IsOverdue(delta) == delta < 0

\* What datetime.strptime(s, "%Y-%m-%d") raises: TypeError when s is not a
\* str, ValueError when the text does not name a day, nothing otherwise.
StrptimeError(s) ==
    IF s.type # "str" THEN "TypeError"
    ELSE IF ~Parseable(s) THEN "ValueError"
    ELSE "none"

\* A plausible slip: except ValueError alone.
Caught_valueonly(exc) == exc = "ValueError"

\* except (ValueError, TypeError)
Caught(exc) == exc \in {"ValueError", "TypeError"}

\* The call ending in an exception instead of a return value.
Raises(exc) == <<<<"raises", exc>>, "none">>

\* coc_status(cert_to_str), with date.today() = now.  The f-string results
\* are kept as their parts: <<label, days>>.
coc_status(cert_to_str, now) ==
    IF Falsy(cert_to_str) THEN <<<<"No COC">>, "red">>
    ELSE IF StrptimeError(cert_to_str) # "none"
    THEN (IF Caught(StrptimeError(cert_to_str)) THEN <<<<"Invalid Date">>, "gray">>
          ELSE Raises(StrptimeError(cert_to_str)))
    ELSE LET cert_to == ParseDate(cert_to_str)
             delta == DaysBetween(cert_to, now)
         IN  IF IsOverdue(delta) THEN <<<<"EXPIRED", Abs(delta)>>, "red">>
             ELSE IF delta <= 7 THEN <<<<"EXPIRING", delta>>, "orange">>
             ELSE <<<<"Current", delta>>, "green">>

\* One evaluation of coc_status, as the Dashboard, All Cases and COC Tracker
\* pages make for each certificate end date they show.
CocStatus ==
    /\ form.kind = "coc_status"
    /\ view' = [kind |-> "coc_status", cert_to_str |-> form.cert_to_str,
                result |-> coc_status(form.cert_to_str, today)]
    /\ UNCHANGED <<today, form, store>>

(***************************************************************************)
(* Money.  An amount is an integer number of units, MoneyUnit units to the *)
(* cent; a rate is an integer percentage (0.95 is 95).                     *)
(***************************************************************************)
MoneyUnit == 5 * 100

Cents(c) == c * MoneyUnit

Dollars(n) == Cents(100 * n)

\* amount * rate, with no rounding: amounts are whole cents, so amount is
\* a multiple of 100 units and the quotient is exact
TimesRate(amount, rate) == (amount \div 100) * rate

\* A plausible slip: the entitlement rounded down to whole cents.
Entitled_cents(piawe, rate) == (TimesRate(piawe, rate) \div MoneyUnit) * MoneyUnit

\* entitled = piawe * rate
Entitled(piawe, rate) == TimesRate(piawe, rate)

\* f"{x:,.2f}": x to the nearest cent (half to even), in cents
Fmt2(x) ==
    LET q == x \div MoneyUnit
        r == x % MoneyUnit
    IN  IF 2 * r > MoneyUnit \/ (2 * r = MoneyUnit /\ q % 2 = 1) THEN q + 1 ELSE q

(***************************************************************************)
(* Python floats (IEEE 754 binary64, round to nearest, ties to even).  A   *)
(* natural number of any size is a sequence of limbs, lowest first, each   *)
(* below LimbBase, with no zero limb at the top; a float >= 0 is           *)
(* <<m, e>>, the number m * 2^e, with m such a natural of at most          *)
(* MantissaBits bits, odd unless the float is 0 (which is <<<<>>, 0>>).    *)
(***************************************************************************)
LimbBits == 3 * 5

MantissaBits == 50 + 3

RECURSIVE Pow2(_)
Pow2(n) == IF n = 0 THEN 1 ELSE 2 * Pow2(n - 1)

LimbBase == Pow2(LimbBits)

\* n >= 0 as limbs
RECURSIVE BigFromInt(_)
BigFromInt(n) == IF n = 0 THEN <<>> ELSE <<n % LimbBase>> \o BigFromInt(n \div LimbBase)

\* a * k + carry, for 0 <= k < LimbBase and 0 <= carry < LimbBase
RECURSIVE BigMulSmallCarry(_, _, _)
BigMulSmallCarry(a, k, carry) ==
    IF a = <<>> THEN BigFromInt(carry)
    ELSE LET t == a[1] * k + carry
         IN  <<t % LimbBase>> \o BigMulSmallCarry(Tail(a), k, t \div LimbBase)

BigMulSmall(a, k) == IF a = <<>> \/ k = 0 THEN <<>> ELSE BigMulSmallCarry(a, k, 0)

RECURSIVE BigAddCarry(_, _, _)
BigAddCarry(a, b, carry) ==
    IF a = <<>> /\ b = <<>> THEN BigFromInt(carry)
    ELSE LET x == IF a = <<>> THEN 0 ELSE a[1]
             y == IF b = <<>> THEN 0 ELSE b[1]
             t == x + y + carry
         IN  <<t % LimbBase>>
                 \o BigAddCarry(IF a = <<>> THEN <<>> ELSE Tail(a),
                                IF b = <<>> THEN <<>> ELSE Tail(b), t \div LimbBase)

BigAdd(a, b) == IF a = <<>> THEN b ELSE IF b = <<>> THEN a ELSE BigAddCarry(a, b, 0)

\* a * LimbBase^n
BigShiftLimbs(a, n) == IF a = <<>> THEN <<>> ELSE [i \in 1..n |-> 0] \o a

RECURSIVE BigMul(_, _)
BigMul(a, b) ==
    IF a = <<>> \/ b = <<>> THEN <<>>
    ELSE BigAdd(BigMulSmall(a, b[1]), BigShiftLimbs(BigMul(a, Tail(b)), 1))

\* <<a \div d, a % d>> for 0 < d < LimbBase, the remainder a number
RECURSIVE BigDivSmall(_, _)
BigDivSmall(a, d) ==
    IF a = <<>> THEN <<<<>>, 0>>
    ELSE LET high == BigDivSmall(Tail(a), d)
             t == high[2] * LimbBase + a[1]
         IN  IF high[1] = <<>> /\ t < d THEN <<<<>>, t>>
             ELSE <<<<t \div d>> \o high[1], t % d>>

\* a * 2^n
BigShiftLeft(a, n) ==
    IF a = <<>> THEN <<>>
    ELSE BigMulSmall(BigShiftLimbs(a, n \div LimbBits), Pow2(n % LimbBits))

\* a \div 2^n
BigShiftRight(a, n) ==
    IF n \div LimbBits >= Len(a) THEN <<>>
    ELSE BigDivSmall(SubSeq(a, (n \div LimbBits) + 1, Len(a)), Pow2(n % LimbBits))[1]

\* a % 2^n = 0
BigLowBitsZero(a, n) ==
    /\ \A i \in 1..Len(a) : i <= n \div LimbBits => a[i] = 0
    /\ (n \div LimbBits) + 1 <= Len(a) => a[(n \div LimbBits) + 1] % Pow2(n % LimbBits) = 0

BigIsOdd(a) == a # <<>> /\ a[1] % 2 = 1

RECURSIVE SmallBitLen(_)
SmallBitLen(n) == IF n = 0 THEN 0 ELSE 1 + SmallBitLen(n \div 2)

BigBitLen(a) == IF a = <<>> THEN 0 ELSE LimbBits * (Len(a) - 1) + SmallBitLen(a[Len(a)])

\* The number of zero bits at the low end of a # 0
BigTrailingZeros(a) ==
    LET limb == CHOOSE i \in 1..Len(a) : a[i] # 0 /\ \A j \in 1..(i - 1) : a[j] = 0
        bit == CHOOSE k \in 0..(LimbBits - 1) :
                   a[limb] % Pow2(k) = 0 /\ a[limb] % Pow2(k + 1) # 0
    IN  LimbBits * (limb - 1) + bit

\* The float <<m, e>> with m odd (or 0)
FloatCanon(m, e) ==
    IF m = <<>> THEN <<<<>>, 0>>
    ELSE <<BigShiftRight(m, BigTrailingZeros(m)), e + BigTrailingZeros(m)>>

\* n * 2^e, with something more below it when sticky, rounded to a float:
\* to the nearest number of MantissaBits bits, a tie to the even one
FloatRound(n, e, sticky) ==
    LET drop == BigBitLen(n) - MantissaBits
    IN  IF n = <<>> \/ drop <= 0 THEN FloatCanon(n, e)
        ELSE LET q == BigShiftRight(n, drop)
                 guard == BigIsOdd(BigShiftRight(n, drop - 1))
                 below == sticky \/ ~BigLowBitsZero(n, drop - 1)
                 up == guard /\ (below \/ BigIsOdd(q))
             IN  FloatCanon(IF up THEN BigAdd(q, <<1>>) ELSE q, e + drop)

\* More bits than a quotient needs before it is rounded.
QuotientBits == 2 * (8 * 5)

\* p / q for integers p >= 0 and 0 < q < LimbBase: int / int, and the float
\* of a decimal text with q a power of ten
FloatOfRatio(p, q) ==
    LET d == BigDivSmall(BigShiftLeft(BigFromInt(p), QuotientBits), q)
    IN  FloatRound(d[1], 0 - QuotientBits, d[2] # 0)

FloatOfInt(k) == FloatCanon(BigFromInt(k), 0)

\* x * y
FloatMul(x, y) ==
    IF x[1] = <<>> \/ y[1] = <<>> THEN <<<<>>, 0>>
    ELSE FloatRound(BigMul(x[1], y[1]), x[2] + y[2], FALSE)

\* x / d for an integer 0 < d < LimbBase
FloatDivInt(x, d) ==
    LET q == BigDivSmall(BigShiftLeft(x[1], QuotientBits), d)
    IN  IF x[1] = <<>> THEN <<<<>>, 0>>
        ELSE FloatRound(q[1], x[2] - QuotientBits, q[2] # 0)

\* f"{x:.2f}" as a number of cents: x * 100 to the nearest integer, a tie
\* to the even one
FloatCents(x) ==
    LET n == BigMulSmall(x[1], 100)
    IN  IF x[2] >= 0 THEN BigShiftLeft(n, x[2])
        ELSE LET drop == 0 - x[2]
                 q == BigShiftRight(n, drop)
                 guard == BigIsOdd(BigShiftRight(n, drop - 1))
                 below == ~BigLowBitsZero(n, drop - 1)
             IN  IF guard /\ (below \/ BigIsOdd(q)) THEN BigAdd(q, <<1>>) ELSE q

\* A number_input value of whole cents, as the float Python holds
FloatOfMoney(amount) == FloatOfRatio(amount \div MoneyUnit, 100)

\* The float of a rate: the literals 0.95 and 0.80, a number_input value
FloatOfRate(rate) == FloatOfRatio(rate, 100)

\* entitled = piawe * rate, in floats
EntitledFloat(piawe, rate) == FloatMul(FloatOfMoney(piawe), FloatOfRate(rate))

(***************************************************************************)
(* The cases table, as far as the pages modelled here read it.             *)
(***************************************************************************)
CaseIds == {1, 2, 3, 4, 5, 6}

CaseRow(worker_name, state, status, current_capacity, piawe, reduction_rate) ==
    [worker_name |-> worker_name, state |-> state, status |-> status,
     current_capacity |-> current_capacity, piawe |-> piawe,
     reduction_rate |-> reduction_rate]

SeedCases ==
    [id \in CaseIds |->
        CASE id = 1 -> CaseRow("Bob", "VIC", "Active", "Modified Duties", Some(Dollars(1000)), "80%")
          [] id = 2 -> CaseRow("Dan", "NSW", "Active", "No Capacity", Some(Cents(33333)), "95%")
          [] id = 3 -> CaseRow("Amy", "NSW", "Active", "Full Capacity", NULL, "N/A")
          [] id = 4 -> CaseRow("Cal", "QLD", "Closed", "No Capacity", Some(Dollars(1000)), "95%")
          [] id = 5 -> CaseRow("Abe", "VIC", "Active", "Uncertain", NULL, "80%")
          [] OTHER  -> CaseRow("Eve", "NSW", "Active", "Modified Duties", NULL, "95%")]

\* cases_df[cases_df["status"] == "Active"]
active == {id \in DOMAIN cases : cases[id].status = "Active"}

\* A plausible slip: the test for a missing case left out.
CaseFound_always(case_id) == TRUE

\* `if not case` / `len(case) == 0` after SELECT * FROM cases WHERE id = ?
CaseFound(case_id) == case_id \in DOMAIN cases

\* st.error("Case not found"); return
CaseNotFound(source, case_id) ==
    [kind |-> "error", message |-> "Case not found", source |-> source,
     case_id |-> case_id]

\* log_activity(case_id, action, details)
log_activity(log, case_id, action, details) ==
    Append(log, [case_id |-> case_id, action |-> action, details |-> details])

(***************************************************************************)
(* PIAWE Calculator page, "Quick Calculator" form.                         *)
(***************************************************************************)
CalcPeriods == {"Weeks 1-13 (95%)", "Weeks 14-130 (80%)"}

\* rate = 0.95 if "95%" in calc_period else 0.80
CalcRate(calc_period) == IF calc_period = "Weeks 1-13 (95%)" THEN 95 ELSE 80

\* compensation = max(0, entitled - (calc_cwe * rate))
CalcCompensationWorking(entitled, calc_cwe, rate) ==
    Max(0, entitled - TimesRate(calc_cwe, rate))

\* A plausible slip: the shortfall taken without the floor at 0.
CalcTopUp_nofloor(entitled, calc_cwe) == entitled - calc_cwe

\* top_up = max(0, entitled - calc_cwe) if calc_cwe < entitled else 0
CalcTopUp(entitled, calc_cwe) ==
    IF calc_cwe < entitled THEN Max(0, entitled - calc_cwe) ELSE 0

\* A plausible slip: ten days special-cased to a single week.
CalcCompensationNoCapacity_oneweek(entitled, calc_days) ==
    IF calc_days # 10 THEN (entitled * calc_days) \div 5 ELSE entitled

\* compensation = entitled * (calc_days / 5) if calc_days != 10 else entitled * 2
CalcCompensationNoCapacity(entitled, calc_days) ==
    IF calc_days # 10 THEN (entitled * calc_days) \div 5 ELSE entitled * 2

\* A plausible slip: the calculator computing a daily rate times the days,
\* as the Payroll page does.
CalcCompensationNoCapacityFloat_daily(entitled, calc_days) ==
    FloatMul(FloatDivInt(entitled, 5), FloatOfInt(calc_days))

\* compensation = entitled * (calc_days / 5) if calc_days != 10 else
\* entitled * 2, in floats
CalcCompensationNoCapacityFloat(entitled, calc_days) ==
    IF calc_days # 10 THEN FloatMul(entitled, FloatOfRatio(calc_days, 5))
    ELSE FloatMul(entitled, FloatOfInt(2))

\* A plausible slip: back-pay left out of the total.
TotalPayable_nobackpay(earnings, compensation, backpay) == earnings + compensation

\* total = earnings + compensation + back-pay
TotalPayable(earnings, compensation, backpay) == earnings + compensation + backpay

PiaweCalculate ==
    LET calc_piawe == form.calc_piawe
        calc_period == form.calc_period
        calc_cwe == form.calc_cwe
        calc_days == form.calc_days
        calc_backpay == form.calc_backpay
        rate == CalcRate(calc_period)
        entitled == Entitled(calc_piawe, rate)
        daily_rate == entitled \div 5
        compensation == IF calc_cwe > 0
                        THEN CalcCompensationWorking(entitled, calc_cwe, rate)
                        ELSE CalcCompensationNoCapacity(entitled, calc_days)
        top_up == IF calc_cwe > 0 THEN CalcTopUp(entitled, calc_cwe) ELSE 0
        total == TotalPayable(calc_cwe, compensation, calc_backpay)
    IN  /\ form.kind = "piawe_calc"
        /\ view' = [kind |-> "piawe_calc",
                    piawe |-> calc_piawe, rate |-> rate, earnings |-> calc_cwe,
                    days |-> calc_days, backpay |-> calc_backpay,
                    entitled |-> entitled, daily_rate |-> daily_rate,
                    compensation |-> compensation, top_up |-> top_up,
                    total |-> total, shows_top_up |-> (top_up > 0),
                    compensation_float |->
                        IF calc_cwe > 0 THEN NULL
                        ELSE Some(CalcCompensationNoCapacityFloat(
                                      EntitledFloat(calc_piawe, rate), calc_days))]
        /\ UNCHANGED <<today, form, store>>

(***************************************************************************)
(* Entitlement shown for a stored case: the payroll tab of the case detail *)
(* view and the "All Cases" tab of the calculator page.                    *)
(***************************************************************************)
\* pd.notna(c["piawe"]) and c["reduction_rate"] in ("95%", "80%")
HasEntitlement(c) == c.piawe # NULL /\ c.reduction_rate \in {"95%", "80%"}

\* rate = 0.95 if c["reduction_rate"] == "95%" else 0.80
LabelRate(reduction_rate) == IF reduction_rate = "95%" THEN 95 ELSE 80

\* The metrics one case gets: PIAWE, rate and weekly entitlement, PIAWE
\* alone, or the "PIAWE not recorded" warning.
EntitlementRow(c) ==
    IF HasEntitlement(c)
    THEN [shows |-> "entitlement", piawe |-> c.piawe, reduction_rate |-> c.reduction_rate,
          entitled |-> Some(Entitled(c.piawe[1], LabelRate(c.reduction_rate)))]
    ELSE IF c.piawe # NULL
    THEN [shows |-> "piawe", piawe |-> c.piawe, reduction_rate |-> c.reduction_rate,
          entitled |-> NULL]
    ELSE [shows |-> "missing", piawe |-> NULL, reduction_rate |-> c.reduction_rate,
          entitled |-> NULL]

RenderCasePayrollTab ==
    /\ form.kind = "case_detail"
    /\ form.case_id \in DOMAIN cases
    /\ view' = [kind |-> "case_payroll_tab", case_id |-> form.case_id,
                row |-> EntitlementRow(cases[form.case_id])]
    /\ UNCHANGED <<today, form, store>>

RenderPiaweSummary ==
    /\ form.kind = "piawe_summary"
    /\ view' = [kind |-> "piawe_summary",
                rows |-> [id \in active |-> EntitlementRow(cases[id])]]
    /\ UNCHANGED <<today, form, store>>

(***************************************************************************)
(* Payroll page, "New Pay Period Entry" form.                              *)
(***************************************************************************)
MaxPayrollEntries == 1

\* default_piawe = float(case_row["piawe"]) if pd.notna(case_row["piawe"]) else 0.0
default_piawe(case_row) == IF case_row.piawe # NULL THEN case_row.piawe[1] ELSE 0

\* default_rate = 0.95 if "95%" else (0.80 if "80%" else 0.0)
default_rate(case_row) ==
    IF case_row.reduction_rate = "95%" THEN 95
    ELSE IF case_row.reduction_rate = "80%" THEN 80 ELSE 0

\* A plausible slip: the shortfall taken without the floor at 0.
PayTopUp_nofloor(entitled, pay_wages) == entitled - pay_wages

\* top_up = max(0, entitled - pay_wages)
PayTopUp(entitled, pay_wages) == Max(0, entitled - pay_wages)

\* daily = entitled / 5; compensation = daily * pay_days
PayCompensationNoWages(entitled, pay_days) == (entitled \div 5) * pay_days

\* daily = entitled / 5; compensation = daily * pay_days, in floats
PayCompensationNoWagesFloat(entitled, pay_days) ==
    FloatMul(FloatDivInt(entitled, 5), FloatOfInt(pay_days))

\* The row INSERTed into payroll_entries.
PayrollRow(case_id, pay_from, pay_to, pay_piawe, pay_rate, pay_days, pay_hours, pay_wages, compensation, top_up, pay_backpay, total, pay_notes) ==
    [case_id |-> case_id,
     period_from |-> YmdStr(pay_from[1], pay_from[2], pay_from[3]),
     period_to |-> YmdStr(pay_to[1], pay_to[2], pay_to[3]),
     piawe |-> pay_piawe, reduction_rate |-> pay_rate,
     days_off |-> pay_days, hours_worked |-> pay_hours,
     estimated_wages |-> pay_wages, compensation_payable |-> compensation,
     top_up |-> top_up, back_pay_expenses |-> pay_backpay,
     total_payable |-> total, notes |-> pay_notes]

\* The payroll_entries table takes every row it is handed, as a new row.
record_payroll_entry(entries, entry) == Append(entries, entry)

\* A plausible slip: INSERT OR REPLACE on (case, period), which overwrites
\* the entry the case already has for the period.
InsertPayrollEntry_upsert(entries, row) ==
    LET same == {i \in 1..Len(entries) :
                    /\ entries[i].case_id = row.case_id
                    /\ entries[i].period_from = row.period_from
                    /\ entries[i].period_to = row.period_to}
    IN  IF same = {} THEN Append(entries, row)
        ELSE [i \in 1..Len(entries) |-> IF i \in same THEN row ELSE entries[i]]

\* INSERT INTO payroll_entries (...) VALUES (...)
InsertPayrollEntry(entries, row) == record_payroll_entry(entries, row)

PayrollCalculateAndSave(sel_case, pay_from, pay_to, pay_piawe, pay_rate, pay_days, pay_hours, pay_wages, pay_backpay, pay_notes) ==
    LET case_row == cases[sel_case]
        entitled == Entitled(pay_piawe, pay_rate)
        top_up == IF pay_wages > 0 THEN PayTopUp(entitled, pay_wages) ELSE 0
        compensation == IF pay_wages > 0 THEN top_up
                        ELSE PayCompensationNoWages(entitled, pay_days)
        total == TotalPayable(pay_wages, compensation, pay_backpay)
    IN  /\ form.kind = "payroll_entry"
        /\ sel_case \in active
        /\ payroll_entries' = InsertPayrollEntry(payroll_entries,
               PayrollRow(sel_case, pay_from, pay_to, pay_piawe, pay_rate, pay_days,
                          pay_hours, pay_wages, compensation, top_up, pay_backpay,
                          total, pay_notes))
        /\ activity_log' = log_activity(activity_log, sel_case, "Payroll Entry",
               <<"Period", pay_from, "to", pay_to, "Total", Fmt2(total)>>)
        /\ view' = [kind |-> "payroll_entry", case_id |-> sel_case,
                    default_piawe |-> default_piawe(case_row),
                    default_rate |-> default_rate(case_row),
                    piawe |-> pay_piawe, rate |-> pay_rate, earnings |-> pay_wages,
                    days |-> pay_days, backpay |-> pay_backpay,
                    entitled |-> entitled, compensation |-> compensation,
                    top_up |-> top_up, total |-> total,
                    \* (floats are carried for amounts >= 0 only)
                    compensation_float |->
                        IF pay_wages > 0 \/ pay_piawe < 0 THEN NULL
                        ELSE Some(PayCompensationNoWagesFloat(
                                      EntitledFloat(pay_piawe, pay_rate), pay_days))]
        /\ UNCHANGED <<today, form, cases, certificates, terminations, case_files>>

(***************************************************************************)
(* Progressive return-to-work schedule (doc_generator).  Hours are held in *)
(* units of 1/HourUnit hour: a tenth of an hour is Tenth units, and the    *)
(* inputs lie on a grid of HourGrid units (0.02 h), finer than the tenth   *)
(* the schedule is rounded to.  On that grid no schedule value is halfway  *)
(* between two tenths.                                                     *)
(***************************************************************************)
HourUnit == 3 * 50

Tenth == HourUnit \div 10

HourGrid == HourUnit \div 50

Hours(n) == n * HourUnit

\* round(hrs, 1) for hrs >= 0: the nearest tenth of an hour
Round1(hrs) == ((2 * hrs + Tenth) \div (2 * Tenth)) * Tenth

\* if not x or x <= 0: x = fallback
OrDefault(x, fallback) == IF x = NULL \/ x[1] <= 0 THEN fallback ELSE x[1]

\* A plausible slip: the week's hours not capped at the pre-injury hours.
WeekHours_uncapped(current_hours, pre_injury_hours, step, w) == current_hours + (step * w)

\* hrs = min(current_hours + (step * w), pre_injury_hours)
WeekHours(current_hours, pre_injury_hours, step, w) ==
    Min(current_hours + (step * w), pre_injury_hours)

\* A plausible slip: the week's hours appended without rounding.
ScheduleEntry_raw(hrs) == hrs

\* schedule.append(round(hrs, 1))
ScheduleEntry(hrs) == Round1(hrs)

\* _build_progressive_hours(current_hours, pre_injury_hours, weeks=4);
\* schedule[w + 1] is the code's schedule[w].
build_progressive_hours(current_hours_arg, pre_injury_hours_arg) ==
    LET weeks == 4
        current_hours == OrDefault(current_hours_arg, Hours(3))
        pre_injury_hours == OrDefault(pre_injury_hours_arg, Hours(38))
        step == (pre_injury_hours - current_hours) \div Max(weeks - 1, 1)
    IN  [i \in 1..weeks |->
            ScheduleEntry(WeekHours(current_hours, pre_injury_hours, step, i - 1))]

BuildProgressiveHours ==
    /\ form.kind = "progressive_hours"
    /\ view' = [kind |-> "progressive_hours",
                current_hours |-> form.current_hours,
                pre_injury_hours |-> form.pre_injury_hours,
                schedule |-> build_progressive_hours(form.current_hours,
                                                     form.pre_injury_hours)]
    /\ UNCHANGED <<today, form, store>>

(***************************************************************************)
(* Capacity labels (doc_generator).  A label is None (NULL) or a str       *)
(* (Some(text)); the substring tests of the code run on the characters of  *)
(* the text.                                                               *)
(***************************************************************************)
CapacityTexts ==
    {"", "No Capacity", "Modified Duties", "Full Capacity", "Clearance", "Uncertain",
     "Unknown", "Cleared", "FULL CAPACITY", "Modified - no capacity to lift"}

\* The characters of a text.
Chars(text) ==
    CASE text = "" ->
           <<>>
      [] text = "No Capacity" ->
           <<"N", "o", " ", "C", "a", "p", "a", "c", "i", "t", "y">>
      [] text = "Modified Duties" ->
           <<"M", "o", "d", "i", "f", "i", "e", "d", " ", "D", "u", "t", "i", "e", "s">>
      [] text = "Full Capacity" ->
           <<"F", "u", "l", "l", " ", "C", "a", "p", "a", "c", "i", "t", "y">>
      [] text = "Clearance" ->
           <<"C", "l", "e", "a", "r", "a", "n", "c", "e">>
      [] text = "Uncertain" ->
           <<"U", "n", "c", "e", "r", "t", "a", "i", "n">>
      [] text = "Unknown" ->
           <<"U", "n", "k", "n", "o", "w", "n">>
      [] text = "Cleared" ->
           <<"C", "l", "e", "a", "r", "e", "d">>
      [] text = "FULL CAPACITY" ->
           <<"F", "U", "L", "L", " ", "C", "A", "P", "A", "C", "I", "T", "Y">>
      [] text = "Modified - no capacity to lift" ->
           <<"M", "o", "d", "i", "f", "i", "e", "d", " ", "-", " ", "n", "o", " ", "c", "a",
             "p", "a", "c", "i", "t", "y", " ", "t", "o", " ", "l", "i", "f", "t">>

UpperCase ==
    <<"A", "B", "C", "D", "E", "F", "G", "H", "I", "J", "K", "L", "M",
      "N", "O", "P", "Q", "R", "S", "T", "U", "V", "W", "X", "Y", "Z">>

LowerCase ==
    <<"a", "b", "c", "d", "e", "f", "g", "h", "i", "j", "k", "l", "m",
      "n", "o", "p", "q", "r", "s", "t", "u", "v", "w", "x", "y", "z">>

\* str.lower(), character by character
Lower(chars) ==
    [i \in 1..Len(chars) |->
        IF \E k \in 1..26 : UpperCase[k] = chars[i]
        THEN LowerCase[CHOOSE k \in 1..26 : UpperCase[k] = chars[i]]
        ELSE chars[i]]

\* needle in hay
Contains(hay, needle) ==
    \E i \in 0..(Len(hay) - Len(needle)) : SubSeq(hay, i + 1, i + Len(needle)) = needle

KwNoCapacity == <<"n", "o", " ", "c", "a", "p", "a", "c", "i", "t", "y">>

KwModified == <<"m", "o", "d", "i", "f", "i", "e", "d">>

KwFull == <<"f", "u", "l", "l">>

KwClearance == <<"c", "l", "e", "a", "r", "a", "n", "c", "e">>

KwCleared == <<"c", "l", "e", "a", "r", "e", "d">>

\* _get_suitable_level(capacity)
get_suitable_level(capacity) ==
    IF capacity = NULL \/ capacity[1] = "" THEN 1
    ELSE LET cap == Lower(Chars(capacity[1]))
         IN  IF Contains(cap, KwNoCapacity) THEN 1
             ELSE IF Contains(cap, KwModified) THEN 2
             ELSE IF Contains(cap, KwFull) \/ Contains(cap, KwClearance) THEN 4
             ELSE 2

GetSuitableLevel ==
    /\ form.kind = "suitable_level"
    /\ view' = [kind |-> "suitable_level", capacity |-> form.capacity,
                level |-> get_suitable_level(form.capacity)]
    /\ UNCHANGED <<today, form, store>>

(***************************************************************************)
(* generate_rtw_plan: the hours baseline, the schedule and the duty level  *)
(* of each week.  med_pre_injury is the "pre_injury_hours" key of the      *)
(* medical data: absent, or present with None or a number.                 *)
(***************************************************************************)
KeyAbsent == [key |-> "absent", value |-> NULL]

KeyPresent(v) == [key |-> "present", value |-> v]

\* `x` as a condition, for x None or a number
Truthy(x) == x # NULL /\ x[1] # 0

\* current_hours = float(hours_per_day) * int(days_per_week) when both are
\* truthy, else None
CertifiedHours(hours_per_day, days_per_week) ==
    IF Truthy(hours_per_day) /\ Truthy(days_per_week)
    THEN Some(hours_per_day[1] * days_per_week[1]) ELSE NULL

\* A plausible slip: an absent days/week taken as one day.
FallbackHours_oneday(days_per_week) ==
    Hours(3 * (IF Truthy(days_per_week) THEN days_per_week[1] ELSE 1))

\* 3 * (days_per_week or 3)
FallbackHours(days_per_week) ==
    Hours(3 * (IF Truthy(days_per_week) THEN days_per_week[1] ELSE 3))

\* if not current_hours: current_hours = 3 * (days_per_week or 3)
BaselineHours(current_hours, days_per_week) ==
    IF Truthy(current_hours) THEN current_hours[1] ELSE FallbackHours(days_per_week)

\* med.get("pre_injury_hours", 38), then float(...) or 38.0 on TypeError
PreInjuryHours(med_pre_injury) ==
    IF med_pre_injury.key = "absent" \/ med_pre_injury.value = NULL
    THEN Hours(38) ELSE med_pre_injury.value[1]

\* A plausible slip: the 90% test made before the baseline test.
WeekLevel_targetfirst(week_hrs, current_hours, pre_injury_hours, level, w) ==
    IF 10 * week_hrs >= 9 * pre_injury_hours THEN 4
    ELSE IF week_hrs <= current_hours THEN level
    ELSE Min(level + w, 4)

\* week_level of week w: the if / elif / else of the hours table
WeekLevel(week_hrs, current_hours, pre_injury_hours, level, w) ==
    IF week_hrs <= current_hours THEN level
    ELSE IF 10 * week_hrs >= 9 * pre_injury_hours THEN 4
    ELSE Min(level + w, 4)

GenerateRtwPlan ==
    LET hours_per_day == form.hours_per_day
        days_per_week == form.days_per_week
        certified == CertifiedHours(hours_per_day, days_per_week)
        level == get_suitable_level(form.current_capacity)
        current_hours == BaselineHours(certified, days_per_week)
        pre_injury_hours == PreInjuryHours(form.pre_injury_hours)
        schedule == build_progressive_hours(Some(current_hours), Some(pre_injury_hours))
    IN  /\ form.kind = "rtw_plan"
        /\ view' = [kind |-> "rtw_plan",
                    current_capacity |-> form.current_capacity,
                    hours_per_day |-> hours_per_day,
                    days_per_week |-> days_per_week,
                    med_pre_injury |-> form.pre_injury_hours,
                    certified |-> certified,
                    current_hours |-> current_hours,
                    pre_injury_hours |-> pre_injury_hours,
                    level |-> level,
                    schedule |-> schedule,
                    week_levels |-> [i \in 1..4 |->
                        WeekLevel(schedule[i], current_hours, pre_injury_hours,
                                  level, i - 1)]]
        /\ UNCHANGED <<today, form, store>>

(***************************************************************************)
(* Field rendering of the generated documents (doc_generator).  A text     *)
(* field is None (NULL) or a str (Some(chars)), chars being the sequence   *)
(* of its characters.  A date field is one of the values of the            *)
(* certificate end date above, a whitespace-only text or a date object;    *)
(* what is written for it is the fallback, a date in %d/%m/%Y, or str() of *)
(* the value.                                                              *)
(***************************************************************************)
\* The texts a field is tried with: up to MaxTextLen characters
MaxTextLen == 3

TextAlphabet == {" ", "a", "b"}

Texts == UNION {[1..n -> TextAlphabet] : n \in 0..MaxTextLen}

TextInputs == {NULL} \cup {Some(chars) : chars \in Texts}

MarkerRequired == <<"[", "R", "E", "Q", "U", "I", "R", "E", "D", "]">>

MarkerReview == <<"[", "R", "E", "V", "I", "E", "W", "]">>

\* "[REVIEW] 1", the fallback of the plan number
MarkerReviewOne == MarkerReview \o <<" ", "1">>

\* str.isspace() of one character
IsSpace(c) == c = " "

\* The places of the characters that are not whitespace.
Solid(chars) == {i \in 1..Len(chars) : ~IsSpace(chars[i])}

Lowest(S) == CHOOSE i \in S : \A j \in S : i <= j

Highest(S) == CHOOSE i \in S : \A j \in S : i >= j

\* str.strip()
Strip(chars) ==
    IF Solid(chars) = {} THEN <<>>
    ELSE SubSeq(chars, Lowest(Solid(chars)), Highest(Solid(chars)))

\* str.split(): the runs of characters that are not whitespace
RECURSIVE Split(_)
Split(chars) ==
    IF Solid(chars) = {} THEN <<>>
    ELSE LET first == Lowest(Solid(chars))
             last == Lowest({i \in first..Len(chars) :
                                i = Len(chars) \/ IsSpace(chars[i + 1])})
         IN  <<SubSeq(chars, first, last)>> \o Split(SubSeq(chars, last + 1, Len(chars)))

\* val is None or (isinstance(val, str) and val.strip() == "")
IsUnknownText(val) == val = NULL \/ Strip(val[1]) = <<>>

\* _fmt(val, fallback)
fmt(val, fallback) == IF IsUnknownText(val) THEN fallback ELSE val[1]

\* A whitespace-only text and a datetime.date, as values of a date field
BlankStr == [type |-> "str", form |-> "blank", y |-> 0, m |-> 0, d |-> 0]

DateObject(y, m, d) == [type |-> "date", form |-> "ymd", y |-> y, m |-> m, d |-> d]

\* What is written for a date field: a marker, date.strftime("%d/%m/%Y"), or
\* str(val)
Marker(chars) == [kind |-> "marker", chars |-> chars]

StrfTime(dt) == [kind |-> "dmy", d |-> dt[3], m |-> dt[2], y |-> dt[1]]

StrOf(val) == [kind |-> "str", val |-> val]

\* _fmt_date(val, fallback)
fmt_date(val, fallback) ==
    IF Falsy(val) THEN fallback
    ELSE IF val.type = "date" THEN StrfTime(ParseDate(val))
    ELSE IF val.type = "str" /\ Parseable(val) THEN StrfTime(ParseDate(val))
    ELSE StrOf(val)

\* date + timedelta(days=n)
RECURSIVE AddDays(_, _)
AddDays(dt, n) ==
    IF n = 0 THEN dt
    ELSE IF dt[3] < DaysInMonth(dt[1], dt[2]) THEN AddDays(<<dt[1], dt[2], dt[3] + 1>>, n - 1)
    ELSE IF dt[2] < 12 THEN AddDays(<<dt[1], dt[2] + 1, 1>>, n - 1)
    ELSE AddDays(<<dt[1] + 1, 1, 1>>, n - 1)

\* generate_rtw_plan, "To be reviewed": _fmt_date(med.get("review_date"),
\* (date.today() + timedelta(days=28)).strftime("%d/%m/%Y"))
review_date_text(review_date, now) == fmt_date(review_date, StrfTime(AddDays(now, 28)))

\* An expression that returns a text, or ends in an exception.
Returns(chars) == [raised |-> "none", chars |-> chars]

RaisesIn(exc) == [raised |-> exc, chars |-> <<>>]

\* `x` as a condition, for x None or a str
TruthyText(x) == x # NULL /\ x[1] # <<>>

\* generate_letter_to_worker: worker_first = (worker_name or "").split()[0]
\* if worker_name else "[REQUIRED]"; the subscript raises IndexError on an
\* empty list
worker_first(worker_name) ==
    IF TruthyText(worker_name)
    THEN (IF Split(worker_name[1]) = <<>> THEN RaisesIn("IndexError")
          ELSE Returns(Split(worker_name[1])[1]))
    ELSE Returns(MarkerRequired)

Fmt ==
    /\ form.kind = "fmt"
    /\ view' = [kind |-> "fmt", val |-> form.val, fallback |-> form.fallback,
                result |-> fmt(form.val, form.fallback)]
    /\ UNCHANGED <<today, form, store>>

FmtDate ==
    /\ form.kind = "fmt_date"
    /\ view' = [kind |-> "fmt_date", val |-> form.val,
                result |-> fmt_date(form.val, Marker(MarkerRequired))]
    /\ UNCHANGED <<today, form, store>>

RtwReviewDate ==
    /\ form.kind = "rtw_review_date"
    /\ view' = [kind |-> "rtw_review_date", val |-> form.review_date,
                result |-> review_date_text(form.review_date, today)]
    /\ UNCHANGED <<today, form, store>>

LetterGreeting ==
    /\ form.kind = "letter_greeting"
    /\ view' = [kind |-> "letter_greeting", worker_name |-> form.worker_name,
                result |-> worker_first(form.worker_name)]
    /\ UNCHANGED <<today, form, store>>

(***************************************************************************)
(* The certificates and terminations tables.  A date column holds the text *)
(* date.isoformat() gives, a YmdStr.                                       *)
(***************************************************************************)
CertificateRow(case_id, cert_from, cert_to, capacity, days_per_week, hours_per_day, notes) ==
    [case_id |-> case_id, cert_from |-> cert_from, cert_to |-> cert_to,
     capacity |-> capacity, days_per_week |-> days_per_week,
     hours_per_day |-> hours_per_day, notes |-> notes]

SeedCertificates ==
    <<CertificateRow(1, YmdStr(2025, 5, 24), YmdStr(2025, 6, 20), "Modified Duties",
                     Some(5), Some(Hours(4)), NULL),
      CertificateRow(2, YmdStr(2025, 5, 4), YmdStr(2025, 6, 1), "No Capacity",
                     NULL, NULL, NULL),
      CertificateRow(6, YmdStr(2025, 4, 22), YmdStr(2025, 5, 20), "Modified Duties",
                     Some(3), Some(Hours(4)), NULL)>>

TerminationRow(case_id, termination_type, status, letter_drafted, letter_sent, response_received, approved_date, assigned_to, completed_date) ==
    [case_id |-> case_id, termination_type |-> termination_type, status |-> status,
     letter_drafted |-> letter_drafted, letter_sent |-> letter_sent,
     response_received |-> response_received, approved_date |-> approved_date,
     assigned_to |-> assigned_to, completed_date |-> completed_date]

SeedTerminations ==
    <<TerminationRow(2, "Show Cause", "Pending", 1, 0, 0, YmdStr(2025, 6, 2), "HR", NULL),
      TerminationRow(1, "Inherent Requirements", "Pending", 0, 0, 0, YmdStr(2025, 6, 9),
                     "HR", NULL)>>

\* date.isoformat()
IsoFormat(dt) == YmdStr(dt[1], dt[2], dt[3])

(***************************************************************************)
(* Ordering.  ORDER BY and sorted() are stable sorts by a key: rows with   *)
(* equal keys keep the order in which they were scanned (rowid order for   *)
(* SQLite's sorter, list order for sorted()).                              *)
(***************************************************************************)
\* The texts the ORDER BY clauses compare, in collation order.
TextOrder ==
    <<"Abe", "Amy", "Bob", "Cal", "Cancelled", "Completed", "Dan", "Eve",
      "In Progress", "NSW", "Pending", "QLD", "VIC">>

TextRank(text) == CHOOSE i \in 1..Len(TextOrder) : TextOrder[i] = text

\* Two texts as one sort key: ORDER BY a, b
PairKey(a, b) == TextRank(a) * (Len(TextOrder) + 1) + TextRank(b)

\* An ISO date text as a sort key: the order of the texts "YYYY-MM-DD" is
\* the order of the numbers YYYYMMDD.
DateKey(s) == (s.y * 100 + s.m) * 100 + s.d

\* A plausible slip: an unstable sort, which puts a row before the rows of
\* equal key already placed.
StaysBefore_strict(placed_key, new_key) == placed_key < new_key

\* A row already placed stays before a new row of equal or greater key.
StaysBefore(placed_key, new_key) == placed_key <= new_key

InsertByKey(sorted, x, key) ==
    LET p == Cardinality({i \in 1..Len(sorted) : StaysBefore(key[sorted[i]], key[x])})
    IN  SubSeq(sorted, 1, p) \o <<x>> \o SubSeq(sorted, p + 1, Len(sorted))

\* seq sorted by key[element], ascending
RECURSIVE StableSort(_, _)
StableSort(seq, key) ==
    IF seq = <<>> THEN <<>>
    ELSE InsertByKey(StableSort(SubSeq(seq, 1, Len(seq) - 1), key), seq[Len(seq)], key)

\* The ids 1..n of a table of n rows, in rowid order.
RowIds(n) == [i \in 1..n |-> i]

Range(seq) == {seq[i] : i \in 1..Len(seq)}

(***************************************************************************)
(* Queries.                                                                *)
(***************************************************************************)
\* get_cases_df(): SELECT * FROM cases ORDER BY state, worker_name (ids)
get_cases_df ==
    StableSort(RowIds(Cardinality(DOMAIN cases)),
               [id \in DOMAIN cases |-> PairKey(cases[id].state, cases[id].worker_name)])

\* cases_df[cases_df["status"] == "Active"], in the order of cases_df
active_df == SelectSeq(get_cases_df, LAMBDA id : cases[id].status = "Active")

\* A plausible slip: ORDER BY cert_to without DESC.
CertsByEndDesc_ascending(case_id) ==
    StableSort(SelectSeq(RowIds(Len(certificates)),
                         LAMBDA i : certificates[i].case_id = case_id),
               [i \in 1..Len(certificates) |-> DateKey(certificates[i].cert_to)])

\* SELECT ... FROM certificates WHERE case_id = ? ORDER BY cert_to DESC (ids)
CertsByEndDesc(case_id) ==
    StableSort(SelectSeq(RowIds(Len(certificates)),
                         LAMBDA i : certificates[i].case_id = case_id),
               [i \in 1..Len(certificates) |-> 0 - DateKey(certificates[i].cert_to)])

\* ... ORDER BY cert_to DESC LIMIT 1: NULL when the case has no certificate
LatestCertId(case_id) ==
    LET rows == CertsByEndDesc(case_id)
    IN  IF rows = <<>> THEN NULL ELSE Some(rows[1])

\* A plausible slip: the outer ORDER BY c.cert_to ASC left out, the rows
\* coming in rowid order.
get_latest_cocs_byrowid ==
    SelectSeq(RowIds(Len(certificates)),
              LAMBDA i : /\ certificates[i].case_id \in DOMAIN cases
                         /\ LatestCertId(certificates[i].case_id) = Some(i))

\* get_latest_cocs(): the certificates whose id is the LIMIT 1 of their
\* case, joined to their case, ORDER BY cert_to ASC (ids)
get_latest_cocs ==
    StableSort(SelectSeq(RowIds(Len(certificates)),
                         LAMBDA i : /\ certificates[i].case_id \in DOMAIN cases
                                    /\ LatestCertId(certificates[i].case_id) = Some(i)),
               [i \in 1..Len(certificates) |-> DateKey(certificates[i].cert_to)])

\* build_medical_data: the certificate the medical data is built from
\* (ORDER BY cert_to DESC LIMIT 1, fetchone())
build_medical_data_cert(case_id) == LatestCertId(case_id)

\* render_case_detail: latest = certs.iloc[0] if len(certs) > 0
case_detail_latest(case_id) ==
    LET certs == CertsByEndDesc(case_id)
    IN  IF Len(certs) > 0 THEN Some(certs[1]) ELSE NULL

\* get_terminations(): terminations joined to their case,
\* ORDER BY t.status, c.worker_name (ids)
get_terminations ==
    StableSort(SelectSeq(RowIds(Len(terminations)),
                         LAMBDA i : terminations[i].case_id \in DOMAIN cases),
               [i \in 1..Len(terminations) |->
                   PairKey(terminations[i].status,
                           cases[terminations[i].case_id].worker_name)])

\* terms[terms["status"] == "Pending"]
pending_terms == SelectSeq(get_terminations, LAMBDA i : terminations[i].status = "Pending")

(***************************************************************************)
(* Dashboard page, default view: the alert list.                           *)
(***************************************************************************)
Alert(type, severity, case_id, message, days) ==
    [type |-> type, severity |-> severity, worker |-> cases[case_id].worker_name,
     case_id |-> case_id, message |-> message, days |-> days]

\* for _, row in cocs.iterrows(): an alert when the colour is red or orange
CocAlerts(cocs) ==
    LET flagged == SelectSeq(cocs,
                       LAMBDA i : coc_status(certificates[i].cert_to, today)[2]
                                      \in {"red", "orange"})
    IN  [k \in 1..Len(flagged) |->
            LET row == certificates[flagged[k]]
                result == coc_status(row.cert_to, today)
            IN  Alert("COC", IF result[2] = "red" THEN "URGENT" ELSE "WARNING",
                      row.case_id, result[1][1],
                      IF Len(result[1]) > 1 THEN result[1][2] ELSE 0)]

\* cases_with_coc = set(cocs["case_id"].tolist())
CasesWithCoc(cocs) == {certificates[i].case_id : i \in Range(cocs)}

\* A plausible slip: the capacity of the case is not looked at.
NoCocAlerts_anycapacity(active_rows, cases_with_coc) ==
    LET flagged == SelectSeq(active_rows, LAMBDA id : id \notin cases_with_coc)
    IN  [k \in 1..Len(flagged) |->
            Alert("COC", "WARNING", flagged[k], "No COC on record", 0)]

\* for _, case in active.iterrows(): no COC and not Full Capacity
NoCocAlerts(active_rows, cases_with_coc) ==
    LET flagged == SelectSeq(active_rows,
                       LAMBDA id : /\ id \notin cases_with_coc
                                   /\ cases[id].current_capacity # "Full Capacity")
    IN  [k \in 1..Len(flagged) |->
            Alert("COC", "WARNING", flagged[k], "No COC on record", 0)]

\* for _, t in pending_terms.iterrows()
TerminationAlerts(pending) ==
    [k \in 1..Len(pending) |->
        Alert("TERMINATION", "ACTION", terminations[pending[k]].case_id,
              "Termination pending", 0)]

\* for _, case in active.iterrows(): PIAWE missing, not Full Capacity, and a
\* reduction rate other than "N/A"
PiaweAlerts(active_rows) ==
    LET flagged == SelectSeq(active_rows,
                       LAMBDA id : /\ cases[id].piawe = NULL
                                   /\ cases[id].current_capacity # "Full Capacity"
                                   /\ cases[id].reduction_rate # "N/A")
    IN  [k \in 1..Len(flagged) |->
            Alert("PAYROLL", "INFO", flagged[k], "PIAWE data missing", 0)]

\* {"URGENT": 0, "WARNING": 1, "ACTION": 2, "INFO": 3}[x["severity"]]
SeverityRank(severity) ==
    CASE severity = "URGENT" -> 0
      [] severity = "WARNING" -> 1
      [] severity = "ACTION" -> 2
      [] severity = "INFO" -> 3

\* sorted(alerts, key=lambda x: ...[x["severity"]])
sorted_alerts(alerts) ==
    LET order == StableSort(RowIds(Len(alerts)),
                            [i \in 1..Len(alerts) |-> SeverityRank(alerts[i].severity)])
    IN  [k \in 1..Len(alerts) |-> alerts[order[k]]]

\* The first loop of the "Expired COCs" metric: the rows of cocs with
\* "EXPIRED" in their status
ExpiredCocRows(cocs) ==
    SelectSeq(cocs, LAMBDA i : coc_status(certificates[i].cert_to, today)[1][1] = "EXPIRED")

\* Its second loop: the active cases with no COC and not Full Capacity
MissingCocRows(active_rows, cases_with_coc) ==
    SelectSeq(active_rows,
              LAMBDA id : /\ id \notin cases_with_coc
                          /\ cases[id].current_capacity # "Full Capacity")

\* expired_count: one more for every row of either loop
expired_count(cocs, active_rows) ==
    Len(ExpiredCocRows(cocs)) + Len(MissingCocRows(active_rows, CasesWithCoc(cocs)))

\* expired_case_ids: the case of every row of either loop
expired_case_ids(cocs, active_rows) ==
    {certificates[i].case_id : i \in Range(ExpiredCocRows(cocs))}
        \cup Range(MissingCocRows(active_rows, CasesWithCoc(cocs)))

\* filtered = active[active["id"].isin(expired_case_ids)]
ExpiredCocFilter(active_rows, case_ids) ==
    SelectSeq(active_rows, LAMBDA id : id \in case_ids)

\* st.session_state.dashboard_filter: None, or the name of a metric
NoFilter == "None"

\* One run of the Dashboard page with no case selected: the metrics, and
\* below them the list of the filter or, with no filter, the alert list.
DashboardView(current_filter) ==
    LET active_rows == active_df
        cocs == get_latest_cocs
        cases_with_coc == CasesWithCoc(cocs)
        alerts == CocAlerts(cocs) \o NoCocAlerts(active_rows, cases_with_coc)
                      \o TerminationAlerts(pending_terms) \o PiaweAlerts(active_rows)
    IN  IF current_filter = "expired_coc"
        THEN [kind |-> "dashboard_expired_coc",
              expired_count |-> expired_count(cocs, active_rows),
              expired_case_ids |-> expired_case_ids(cocs, active_rows),
              filtered |-> ExpiredCocFilter(active_rows,
                                            expired_case_ids(cocs, active_rows))]
        ELSE [kind |-> "dashboard", alerts |-> alerts, shown |-> sorted_alerts(alerts),
              expired_count |-> expired_count(cocs, active_rows)]

\* The menu entry "Dashboard": the change of page clears the filter, and the
\* run shows the alert list.
RenderDashboard ==
    /\ form' = [kind |-> "dashboard", dashboard_filter |-> NoFilter]
    /\ view' = DashboardView(NoFilter)
    /\ UNCHANGED <<today, store>>

\* The metric button "Expired COCs": sets the filter, or clears it when it
\* was set, and reruns the page.
ClickExpiredCocs ==
    LET current_filter == form.dashboard_filter
        new_filter == IF current_filter = "expired_coc" THEN NoFilter ELSE "expired_coc"
    IN  /\ form.kind = "dashboard"
        /\ form' = [form EXCEPT !.dashboard_filter = new_filter]
        /\ view' = DashboardView(new_filter)
        /\ UNCHANGED <<today, store>>

(***************************************************************************)
(* Certificates: the "Add New COC" forms and the views of the latest       *)
(* certificate.                                                            *)
(***************************************************************************)
\* new_days if new_days > 0 else None
PositiveOrNone(x) == IF x > 0 THEN Some(x) ELSE NULL

\* UPDATE cases SET current_capacity=? WHERE id=?
SetCurrentCapacity(table, case_id, capacity) ==
    [table EXCEPT ![case_id].current_capacity = capacity]

\* render_case_detail, Medical / COCs tab, form add_coc_case_<id>
AddCocCaseDetail(new_from, new_to, new_coc_cap, new_days, new_hours) ==
    LET case_id == form.case_id
    IN  /\ form.kind = "case_detail"
        /\ CaseFound(case_id)
        /\ certificates' = Append(certificates,
               CertificateRow(case_id, IsoFormat(new_from), IsoFormat(new_to), new_coc_cap,
                              PositiveOrNone(new_days), PositiveOrNone(new_hours), NULL))
        /\ cases' = SetCurrentCapacity(cases, case_id, new_coc_cap)
        /\ activity_log' = log_activity(activity_log, case_id, "COC Added",
               <<"COC", new_from, "to", new_to, new_coc_cap>>)
        /\ view' = [kind |-> "coc_added", case_id |-> case_id,
                    cert_id |-> Len(certificates) + 1]
        /\ UNCHANGED <<today, form, terminations, payroll_entries, case_files>>

\* COC Tracker page, tab "Add New COC", form add_coc_form
AddCocTracker(selected_case, coc_from, coc_to, coc_capacity, coc_days, coc_hours, coc_notes) ==
    LET case_id == selected_case
    IN  /\ form.kind = "coc_tracker"
        /\ selected_case \in active
        /\ certificates' = Append(certificates,
               CertificateRow(case_id, IsoFormat(coc_from), IsoFormat(coc_to), coc_capacity,
                              PositiveOrNone(coc_days), PositiveOrNone(coc_hours),
                              Some(coc_notes)))
        /\ cases' = SetCurrentCapacity(cases, case_id, coc_capacity)
        /\ activity_log' = log_activity(activity_log, case_id, "COC Added",
               <<"New COC", coc_from, "to", coc_to, coc_capacity>>)
        /\ view' = [kind |-> "coc_added", case_id |-> case_id,
                    cert_id |-> Len(certificates) + 1]
        /\ UNCHANGED <<today, form, terminations, payroll_entries, case_files>>

\* The menu entry "COC Tracker", tab "COC Status": one container per row
\* of cocs
RenderCocTracker ==
    /\ form' = [kind |-> "coc_tracker"]
    /\ view' = [kind |-> "coc_tracker", cocs |-> get_latest_cocs]
    /\ UNCHANGED <<today, store>>

\* An "Open" button: render_case_detail (overview: "Latest COC") and the
\* medical data of the Generate Docs tab, for the selected case
RenderCaseDetail(case_id) ==
    /\ form' = [kind |-> "case_detail", case_id |-> case_id]
    /\ view' = IF ~CaseFound(case_id) THEN CaseNotFound("render_case_detail", case_id)
               ELSE [kind |-> "case_detail", case_id |-> case_id,
                     latest |-> case_detail_latest(case_id),
                     medical_cert |-> build_medical_data_cert(case_id)]
    /\ UNCHANGED <<today, store>>

\* dg.AVAILABLE_DOCUMENTS, in the order of its keys
AvailableDocuments ==
    <<"letter_to_worker", "rtw_information", "register_of_injury", "letter_to_doctor",
      "rtw_arrangement", "rtw_plan">>

\* docs_to_generate = [k for k, v in selected_docs.items() if v]
DocsToGenerate(selected_docs) == SelectSeq(AvailableDocuments, LAMBDA k : k \in selected_docs)

\* INSERT INTO generated_documents ..., one row for every generated document
InsertGeneratedDocuments(table, case_id, doc_types) ==
    table \o [k \in 1..Len(doc_types) |-> [case_id |-> case_id, doc_type |-> doc_types[k]]]

\* render_generate_documents(case_id) for the case of the session, in the
\* run after "Generate Selected Documents" was clicked (the button is
\* disabled while no document is ticked)
GenerateDocuments(case_id, selected_docs) ==
    /\ form.kind = "case_detail"
    /\ case_id = form.case_id
    /\ IF ~CaseFound(case_id)
       THEN /\ view' = CaseNotFound("render_generate_documents", case_id)
            /\ UNCHANGED store
       ELSE /\ selected_docs # {}
            /\ generated_documents' =
                   InsertGeneratedDocuments(generated_documents, case_id,
                                            DocsToGenerate(selected_docs))
            /\ activity_log' = log_activity(activity_log, case_id, "Documents Generated",
                   DocsToGenerate(selected_docs))
            /\ view' = [kind |-> "documents_generated", case_id |-> case_id,
                        results |-> DocsToGenerate(selected_docs)]
            /\ UNCHANGED <<cases, certificates, terminations, payroll_entries, documents,
                           incident_details, doctor_details>>
    /\ UNCHANGED <<today, form>>

\* render_case_detail, Overview tab, form quick_edit_<id> (its Priority, Next
\* Action and Notes columns are not part of a case row here)
QuickEditCase(new_cap) ==
    LET case_id == form.case_id
    IN  /\ form.kind = "case_detail"
        /\ CaseFound(case_id)
        /\ cases' = SetCurrentCapacity(cases, case_id, new_cap)
        /\ activity_log' = log_activity(activity_log, case_id, "Case Updated",
               <<"Capacity", new_cap>>)
        /\ view' = [kind |-> "case_saved", case_id |-> case_id]
        /\ UNCHANGED <<today, form, certificates, terminations, payroll_entries, case_files>>

(***************************************************************************)
(* All Cases page, tab "Edit Case", form edit_case_form.                   *)
(***************************************************************************)
\* The options of selectbox("Current Capacity") of the Quick Edit, Add New
\* Case and Edit Case forms, of selectbox("Reduction Rate") and of
\* selectbox("Status")
CapacityOptions ==
    <<"No Capacity", "Modified Duties", "Full Capacity", "Uncertain", "Unknown">>

ReductionOptions == <<"95%", "80%", "N/A">>

StatusOptions == <<"Active", "Closed", "Pending Closure">>

\* selectbox(options, index=options.index(value) if value in options else
\* fallback): the option the form opens with (fallback counts from 0)
Preselected(options, value, fallback) ==
    IF value \in Range(options) THEN value ELSE options[fallback + 1]

\* The values the Edit Case form opens with for a case.
EditCaseDefaults(case) ==
    [edit_capacity |-> Preselected(CapacityOptions, case.current_capacity, 4),
     edit_piawe |-> IF case.piawe # NULL THEN case.piawe[1] ELSE 0,
     edit_reduction |-> Preselected(ReductionOptions, case.reduction_rate, 2),
     edit_status |-> Preselected(StatusOptions, case.status, 0)]

\* cases_df[cases_df["worker_name"] == selected_name]
CasesNamed(selected_name) ==
    SelectSeq(get_cases_df, LAMBDA id : cases[id].worker_name = selected_name)

\* "Save Changes" for the first case of that name (its Shift Structure,
\* Priority, Strategy, Next Action and Notes are not part of a case row
\* here)
EditCase(selected_name, edit_capacity, edit_piawe, edit_reduction, edit_status) ==
    /\ form.kind = "all_cases"
    /\ CasesNamed(selected_name) # <<>>
    /\ LET case_id == CasesNamed(selected_name)[1]
       IN  /\ cases' = [cases EXCEPT ![case_id].current_capacity = edit_capacity,
                                     ![case_id].piawe = PositiveOrNone(edit_piawe),
                                     ![case_id].reduction_rate = edit_reduction,
                                     ![case_id].status = edit_status]
           /\ activity_log' = log_activity(activity_log, case_id, "Case Updated",
                  <<"Updated details for", selected_name>>)
           /\ view' = [kind |-> "case_saved", case_id |-> case_id]
    /\ UNCHANGED <<today, form, certificates, terminations, payroll_entries, case_files>>

(***************************************************************************)
(* New Case page: the wizard.  Its session state is wizard_step and        *)
(* wizard_data, kept in `form`; wizard_data is a dict, here a function     *)
(* from the keys of the wizard to KeyAbsent or KeyPresent(value), a text   *)
(* value being Some(text).  The keys that reach no table modelled here     *)
(* (address, phone, witnesses, tenure, ...) are left out.                  *)
(***************************************************************************)
\* The keys step 1 sets and the keys step 2 adds.
WizardStep1Keys == {"worker_name", "state", "injury_description"}

WizardStep2Keys ==
    {"doctor_name", "cert_from", "cert_to", "current_capacity", "days_per_week",
     "hours_per_day", "piawe", "reduction_rate"}

\* {}
EmptyDict == [k \in WizardStep1Keys \cup WizardStep2Keys |-> KeyAbsent]

\* d.get(key, default)
DictGet(d, key, default) == IF d[key].key = "absent" THEN default ELSE d[key].value

\* `text` as a condition, for a str
NonEmpty(text) == text # ""

\* A plausible slip: step 1 tests the worker name alone.
Step1Complete_nameonly(wiz_name, wiz_description) == NonEmpty(wiz_name)

\* Neither "Worker name is required" nor "Injury description is required"
Step1Complete(wiz_name, wiz_description) == NonEmpty(wiz_name) /\ NonEmpty(wiz_description)

\* What the page shows after a handler of the wizard: the step it is on now,
\* the handler that ran and the step it ran on.
WizardView(handler, step_before, step, message) ==
    [kind |-> "wizard", handler |-> handler, step_before |-> step_before, step |-> step,
     message |-> message]

\* form wizard_step1, "Next: Medical Details"
WizardStep1Submit(wiz_name, wiz_state, wiz_description) ==
    /\ form.kind = "new_case"
    /\ form.wizard_step = 1
    /\ IF ~Step1Complete(wiz_name, wiz_description)
       THEN /\ view' = WizardView("step1", 1, 1,
                           IF ~NonEmpty(wiz_name) THEN "Worker name is required"
                           ELSE "Injury description is required")
            /\ UNCHANGED form
       ELSE /\ form' = [form EXCEPT
                   !.wizard_data = KeyPresent(
                       [k \in DOMAIN EmptyDict |->
                           CASE k = "worker_name" -> KeyPresent(Some(wiz_name))
                             [] k = "state" -> KeyPresent(Some(wiz_state))
                             [] k = "injury_description" -> KeyPresent(Some(wiz_description))
                             [] OTHER -> KeyAbsent]),
                   !.wizard_step = 2]
            /\ view' = WizardView("step1", 1, 2, "")
    /\ UNCHANGED <<today, store>>

\* "Back to Step 1"
WizardBackToStep1 ==
    /\ form.kind = "new_case"
    /\ form.wizard_step = 2
    /\ form' = [form EXCEPT !.wizard_step = 1]
    /\ view' = WizardView("back", 2, 1, "")
    /\ UNCHANGED <<today, store>>

\* form wizard_step2, "Next: Generate Documents": wd.update({...}) on
\* st.session_state.wizard_data, which raises when the key is not there
WizardStep2Submit(wiz_doc_name, wiz_cert_from, wiz_cert_to, wiz_capacity, wiz_days_pw, wiz_hrs_pd, wiz_piawe, wiz_reduction) ==
    /\ form.kind = "new_case"
    /\ form.wizard_step = 2
    /\ IF form.wizard_data = KeyAbsent
       THEN /\ view' = WizardView("step2", 2, 2, "AttributeError")
            /\ UNCHANGED form
       ELSE /\ form' = [form EXCEPT
                   !.wizard_data = KeyPresent(
                       [k \in DOMAIN EmptyDict |->
                           CASE k = "doctor_name" -> KeyPresent(Some(wiz_doc_name))
                             [] k = "cert_from" -> KeyPresent(Some(IsoFormat(wiz_cert_from)))
                             [] k = "cert_to" -> KeyPresent(Some(IsoFormat(wiz_cert_to)))
                             [] k = "current_capacity" -> KeyPresent(Some(wiz_capacity))
                             [] k = "days_per_week" -> KeyPresent(PositiveOrNone(wiz_days_pw))
                             [] k = "hours_per_day" -> KeyPresent(PositiveOrNone(wiz_hrs_pd))
                             [] k = "piawe" -> KeyPresent(PositiveOrNone(wiz_piawe))
                             [] k = "reduction_rate" -> KeyPresent(Some(wiz_reduction))
                             [] OTHER -> form.wizard_data.value[k]]),
                   !.wizard_step = 3]
            /\ view' = WizardView("step2", 2, 3, "")
    /\ UNCHANGED <<today, store>>

\* "Back to Step 2"
WizardBackToStep2 ==
    /\ form.kind = "new_case"
    /\ form.wizard_step = 3
    /\ form' = [form EXCEPT !.wizard_step = 2]
    /\ view' = WizardView("back", 3, 2, "")
    /\ UNCHANGED <<today, store>>

\* "Cancel": wizard_step = 1, del st.session_state.wizard_data
WizardCancel ==
    /\ form.kind = "new_case"
    /\ form.wizard_step = 3
    /\ form' = [form EXCEPT !.wizard_step = 1, !.wizard_data = KeyAbsent]
    /\ view' = WizardView("cancel", 3, 1, "")
    /\ UNCHANGED <<today, store>>

\* The columns the INSERT INTO cases leaves to the table's defaults.
NewCaseDefaults == [status |-> "Active"]

\* doc_types, the document checklist of a new case
ChecklistDocTypes ==
    <<"Incident Report", "Claim Form", "Payslips (12 months)", "PIAWE Calculation",
      "Certificate of Capacity (Current)", "RTW Plan (Current)", "Suitable Duties Plan",
      "Medical Certificates", "Insurance Correspondence", "Wage Records">>

\* for dt in doc_types: INSERT INTO documents (case_id, doc_type)
InsertChecklist(table, case_id) ==
    table \o [k \in 1..Len(ChecklistDocTypes) |->
                 [case_id |-> case_id, doc_type |-> ChecklistDocTypes[k]]]

\* The characters of a worker name.
NameChars(worker_name) ==
    CASE worker_name = " " -> <<" ">>
      [] worker_name = "Fay" -> <<"F", "a", "y">>
      [] OTHER -> <<"x">>

\* dg.generate_documents(case_data, docs_to_generate, ...) ends in an
\* exception: the letter to the worker, for a name worker_first raises on
GenerationRaises(worker_name, doc_types) ==
    /\ "letter_to_worker" \in Range(doc_types)
    /\ worker_first(Some(NameChars(worker_name))).raised # "none"

\* "Create Case & Generate Documents" (wizard_data is there whenever the
\* wizard is at step 3).  The handler changes neither wizard_step nor
\* wizard_data; its "Open Case" button is drawn inside the branch of the
\* create button.
WizardCreateCase(selected_docs) ==
    /\ form.kind = "new_case"
    /\ form.wizard_step = 3
    /\ form.wizard_data # KeyAbsent
    /\ LET wd == form.wizard_data.value
           case_id == Cardinality(DOMAIN cases) + 1
           worker_name == DictGet(wd, "worker_name", NULL)[1]
           capacity == DictGet(wd, "current_capacity", Some("Unknown"))[1]
           docs_to_generate == DocsToGenerate(selected_docs)
           raises == docs_to_generate # <<>> /\ GenerationRaises(worker_name, docs_to_generate)
           created == log_activity(activity_log, case_id, "Case Created",
                                   <<"New case via wizard for", worker_name>>)
       IN  /\ cases' = [id \in DOMAIN cases \cup {case_id} |->
                           IF id \in DOMAIN cases THEN cases[id]
                           ELSE CaseRow(worker_name, DictGet(wd, "state", NULL)[1],
                                        NewCaseDefaults.status, capacity,
                                        DictGet(wd, "piawe", NULL),
                                        DictGet(wd, "reduction_rate", Some("95%"))[1])]
           /\ documents' = InsertChecklist(documents, case_id)
           /\ certificates' =
                  IF DictGet(wd, "cert_from", NULL) # NULL /\ DictGet(wd, "cert_to", NULL) # NULL
                  THEN Append(certificates,
                           CertificateRow(case_id, DictGet(wd, "cert_from", NULL)[1],
                                          DictGet(wd, "cert_to", NULL)[1], capacity,
                                          DictGet(wd, "days_per_week", NULL),
                                          DictGet(wd, "hours_per_day", NULL), NULL))
                  ELSE certificates
           /\ incident_details' = Append(incident_details,
                  [case_id |-> case_id,
                   task_performed |-> DictGet(wd, "injury_description", NULL)])
           /\ doctor_details' =
                  IF DictGet(wd, "doctor_name", NULL) \notin {NULL, Some("")}
                  THEN Append(doctor_details,
                           [case_id |-> case_id,
                            doctor_name |-> DictGet(wd, "doctor_name", NULL)])
                  ELSE doctor_details
           /\ generated_documents' =
                  IF raises THEN generated_documents
                  ELSE InsertGeneratedDocuments(generated_documents, case_id, docs_to_generate)
           /\ activity_log' =
                  IF docs_to_generate = <<>> \/ raises THEN created
                  ELSE log_activity(created, case_id, "Documents Generated", docs_to_generate)
           /\ view' = [kind |-> "wizard_created", case_id |-> case_id, wizard_data |-> wd,
                       raised |-> IF raises THEN "IndexError" ELSE "none",
                       results |-> IF raises THEN <<>> ELSE docs_to_generate]
    /\ UNCHANGED <<today, form, terminations, payroll_entries>>

\* "Open Case", shown by the run that created the case: the click reruns
\* the script, in which the create button is not pressed, so the branch
\* that holds the button and its handler is not entered.
WizardOpenCase ==
    /\ form.kind = "new_case"
    /\ view.kind = "wizard_created"
    /\ view.raised = "none"
    /\ view' = WizardView("open_case", form.wizard_step, form.wizard_step, "")
    /\ UNCHANGED <<today, form, store>>

(***************************************************************************)
(* Terminations page.                                                      *)
(***************************************************************************)
\* The columns the INSERT leaves to the table's defaults.
NewTerminationDefaults ==
    [status |-> "Pending", letter_drafted |-> 0, letter_sent |-> 0, response_received |-> 0]

\* A plausible slip: only the records still open keep a case off the list.
existing_term_cases_open ==
    {terminations[i].case_id :
        i \in {j \in Range(get_terminations) :
                  terminations[j].status \in {"Pending", "In Progress"}}}

\* existing_term_cases = set(terms["case_id"].tolist())
existing_term_cases == {terminations[i].case_id : i \in Range(get_terminations)}

\* available = active_cases[~active_cases["id"].isin(existing_term_cases)]:
\* the workers the Initiate Termination form offers
available == SelectSeq(active_df, LAMBDA id : id \notin existing_term_cases)

\* The menu entry "Terminations": the metrics, the pending records and the
\* options of the two forms
RenderTerminations ==
    /\ form' = [kind |-> "terminations"]
    /\ view' = [kind |-> "terminations", pending |-> pending_terms,
                available |-> available, terms |-> get_terminations]
    /\ UNCHANGED <<today, store>>

\* tab "Initiate Termination", form add_termination
InitiateTermination(sel, term_type, assigned_to) ==
    /\ form.kind = "terminations"
    /\ sel \in Range(available)
    /\ terminations' = Append(terminations,
           TerminationRow(sel, term_type, NewTerminationDefaults.status,
                          NewTerminationDefaults.letter_drafted,
                          NewTerminationDefaults.letter_sent,
                          NewTerminationDefaults.response_received,
                          IsoFormat(today), assigned_to, NULL))
    /\ activity_log' = log_activity(activity_log, sel, "Termination Initiated",
           <<"Type", term_type, "Assigned to", assigned_to>>)
    /\ view' = [kind |-> "termination_saved", id |-> Len(terminations) + 1]
    /\ UNCHANGED <<today, form, cases, certificates, payroll_entries, case_files>>

\* int(checkbox value)
BoolInt(b) == IF b THEN 1 ELSE 0

\* tab "Update Progress", form update_termination
UpdateTermination(id, u_status, u_drafted, u_sent, u_response) ==
    /\ form.kind = "terminations"
    /\ id \in Range(get_terminations)
    /\ terminations' = [terminations EXCEPT
           ![id].status = u_status,
           ![id].letter_drafted = BoolInt(u_drafted),
           ![id].letter_sent = BoolInt(u_sent),
           ![id].response_received = BoolInt(u_response),
           ![id].completed_date = IF u_status = "Completed"
                                  THEN Some(IsoFormat(today)) ELSE NULL]
    /\ activity_log' = log_activity(activity_log, terminations[id].case_id,
           "Termination Updated", <<"Status", u_status>>)
    /\ view' = [kind |-> "termination_saved", id |-> id]
    /\ UNCHANGED <<today, form, cases, certificates, payroll_entries, case_files>>

(***************************************************************************)
(* Navigation: a sidebar menu entry whose page shows a form only.          *)
(***************************************************************************)
Navigate(target) ==
    /\ form' = target
    /\ form' # form
    /\ view' = NoView
    /\ UNCHANGED <<today, store>>

(***************************************************************************)
(* Inputs.  The pages that only compute are explored with their widget     *)
(* values (or arguments) fixed at the start of the session; the Payroll    *)
(* form, which writes the store, is filled anew for every submission.      *)
(***************************************************************************)
\* number_input(min_value=0.0): PIAWE, CWE and back-pay of the calculator;
\* number_input("Days in Pay Period", min_value=1, max_value=14, value=10)
CalcForms ==
    [kind : {"piawe_calc"},
     calc_piawe : {0, Cents(33333), Cents(50050), Dollars(1000)},
     calc_period : CalcPeriods,
     calc_cwe : {0, Dollars(400), Dollars(1200)},
     calc_days : 1..14,
     calc_backpay : {0, Dollars(50)}]

CocForms == [kind : {"coc_status"}, cert_to_str : CertToInputs]

\* Hours handed to _build_progressive_hours: absent, negative, zero, the
\* 0.02 h grid from 38 h down MaxHourTicks steps, and 3, 7.5, 19 and 56 h.
MaxHourTicks == 12

HourValues ==
    {-Hours(1), 0} \cup {Hours(38) - k * HourGrid : k \in 0..MaxHourTicks}
        \cup {Hours(3), Hours(15) \div 2, Hours(19), Hours(56)}

HoursInputs == {NULL} \cup {Some(h) : h \in HourValues}

HoursForms ==
    [kind : {"progressive_hours"}, current_hours : HoursInputs,
     pre_injury_hours : HoursInputs]

\* st.session_state.selected_case_id, which need not name a stored case
CaseDetailForms == [kind : {"case_detail"}, case_id : CaseIds \cup {9}]

PageForms == {[kind |-> "piawe_summary"], [kind |-> "payroll_entry"]}

\* case_data.get("current_capacity"): None or a text
CapacityInputs == {NULL} \cup {Some(text) : text \in CapacityTexts}

SuitableLevelForms == [kind : {"suitable_level"}, capacity : CapacityInputs]

\* Hours/Day and Days/Week of the latest certificate: NULL, 0, or what the
\* Add COC forms store (0.5 h steps up to 24, 1 to 7 days)
RtwHoursPerDay ==
    {NULL, Some(0), Some(Hours(1) \div 2), Some(Hours(3)), Some(Hours(15) \div 2),
     Some(Hours(8))}

RtwDaysPerWeek == {NULL, Some(0), Some(1), Some(3), Some(5)}

RtwPreInjury ==
    {KeyAbsent, KeyPresent(NULL), KeyPresent(Some(Hours(38))),
     KeyPresent(Some(Hours(20))), KeyPresent(Some(Hours(8)))}

RtwForms ==
    [kind : {"rtw_plan"}, current_capacity : CapacityInputs,
     hours_per_day : RtwHoursPerDay, days_per_week : RtwDaysPerWeek,
     pre_injury_hours : RtwPreInjury]

\* The fields handed to _fmt, _fmt_date and the letter's greeting: a text or
\* None with either marker as fallback; None, '', a whitespace-only text, a
\* text that is no date, NaN, ISO date texts and a date object
FmtForms == [kind : {"fmt"}, val : TextInputs, fallback : {MarkerRequired, MarkerReviewOne}]

DateFieldInputs ==
    {None, EmptyStr, BlankStr, OtherStr, NaN, YmdStr(2025, 6, 1), YmdStr(2025, 2, 30),
     DateObject(2025, 6, 1)}

FmtDateForms == [kind : {"fmt_date"}, val : DateFieldInputs]

ReviewDateForms == [kind : {"rtw_review_date"}, review_date : DateFieldInputs]

GreetingForms == [kind : {"letter_greeting"}, worker_name : TextInputs]

DocumentFieldForms == FmtForms \cup FmtDateForms \cup ReviewDateForms \cup GreetingForms

\* Payroll: number_input("PIAWE", value=default_piawe) has no minimum;
\* number_input("Reduction Rate", min_value=0.0, max_value=1.0, step=0.05)
PayPiaweInputs(case_row) == {default_piawe(case_row), -Dollars(100)}

PayRateInputs(case_row) == {default_rate(case_row), 50}

PayWagesInputs == {0, Dollars(400), Dollars(1200)}

\* number_input("Days Off / Light Duties", min_value=0, value=0); left at
\* its default when wages are entered.
PayDaysInputs(pay_wages) == IF pay_wages = 0 THEN {0, 3, 10} ELSE {0}

PayBackpayInputs == {0, Dollars(50)}

PayPeriods == {<<<<2025, 6, 2>>, <<2025, 6, 15>>>>}

\* The pages of a session that edits the store: the case the session opens,
\* and a selected_case_id that names no case.
StoreDetailCases == {1}

MissingCaseIds == {9}

\* The documents ticked when "Generate Selected Documents" is clicked.
DocSelections == {{"letter_to_worker", "rtw_plan"}}

FormPages == {[kind |-> "payroll_entry"], [kind |-> "all_cases"]}

\* selectbox("Capacity") of the two Add COC forms
CocCapacityOptions == <<"No Capacity", "Modified Duties", "Full Capacity", "Clearance">>

\* What the Add COC forms are submitted with, <<From, To, Capacity,
\* Days/Week, Hours/Day>>: an end date before every stored certificate, the
\* end date of the stored certificate of case 1, and a date months ahead
CocSubmissions ==
    {<<<<2025, 4, 1>>, <<2025, 5, 1>>, CocCapacityOptions[1], 0, 0>>,
     <<<<2025, 5, 21>>, <<2025, 6, 20>>, CocCapacityOptions[3], 5, Hours(15) \div 2>>,
     <<<<2025, 6, 15>>, <<2025, 9, 30>>, CocCapacityOptions[4], 0, 0>>}

\* selectbox("Capacity") of the Quick Edit form (one of its five options)
QuickEditCapacities == {"Full Capacity"}

\* selectbox("Select Case to Edit") and selectbox("Status") of the Edit Case
\* form; its other widgets are left as the form opens
EditCaseNames == {"Dan"}

EditCaseStatuses == {"Closed"}

\* selectbox("Worker") of the COC Tracker form (one of the active cases)
CocWorkerInputs == {2}

\* The workers an Initiate Termination is tried for: one without a
\* termination record and one with
TerminationWorkerInputs == {1, 3}

\* selectbox("Status") of the update form (three of its four options)
TerminationStatuses == {"In Progress", "Completed", "Cancelled"}

\* selectbox("Worker") and number_input("Estimated Wages") of the Payroll form
\* in this session
StorePayWorkers == {1}

StorePayWages == {0, Dollars(400)}

\* The wizard's widgets: Worker Name and What Happened? empty, blank or
\* filled; doctor, capacity and PIAWE of step 2 (date_input opens on today);
\* the documents left ticked
WizardNames == {"", " ", "Fay"}

WizardDescriptions == {"", "Fell"}

WizardDoctors == {"", "Dr Lee"}

WizardCapacities == {"Uncertain"}

WizardPiawe == {0, Dollars(500)}

WizardDocSelections == {{}, {"letter_to_worker"}}

\* The writes one session makes.
MaxOps == 2

(***************************************************************************)
(* Specification.                                                          *)
(***************************************************************************)
\* The day matters to coc_status alone; the other pages are explored on
\* one day.
Init ==
    /\ \/ today \in TodayDates /\ form \in CocForms
       \/ /\ today = <<2025, 6, 15>>
          /\ form \in CalcForms \cup HoursForms \cup CaseDetailForms \cup PageForms
                       \cup SuitableLevelForms \cup RtwForms \cup DocumentFieldForms
    /\ view = NoView
    /\ cases = SeedCases
    /\ certificates = SeedCertificates
    /\ terminations = SeedTerminations
    /\ payroll_entries = <<>>
    /\ activity_log = <<>>
    /\ documents = <<>>
    /\ generated_documents = <<>>
    /\ incident_details = <<>>
    /\ doctor_details = <<>>

Next ==
    \/ CocStatus
    \/ PiaweCalculate
    \/ RenderCasePayrollTab
    \/ RenderPiaweSummary
    \/ /\ Len(payroll_entries) < MaxPayrollEntries
       /\ \E sel_case \in active, period \in PayPeriods,
          pay_wages \in PayWagesInputs, pay_backpay \in PayBackpayInputs :
          \E pay_piawe \in PayPiaweInputs(cases[sel_case]),
             pay_rate \in PayRateInputs(cases[sel_case]),
             pay_days \in PayDaysInputs(pay_wages) :
             PayrollCalculateAndSave(sel_case, period[1], period[2], pay_piawe, pay_rate,
                                     pay_days, 0, pay_wages, pay_backpay, "")
    \/ BuildProgressiveHours
    \/ GetSuitableLevel
    \/ GenerateRtwPlan
    \/ Fmt
    \/ FmtDate
    \/ RtwReviewDate
    \/ LetterGreeting

Spec == Init /\ [][Next]_vars

(***************************************************************************)
(* A session that edits the store: any MaxOps submitted forms, on any of   *)
(* the pages, with the pages that show the store rendered in between.      *)
(***************************************************************************)
StoreInit ==
    /\ today = <<2025, 6, 15>>
    /\ form = [kind |-> "dashboard", dashboard_filter |-> NoFilter]
    /\ view = NoView
    /\ cases = SeedCases
    /\ certificates = SeedCertificates
    /\ terminations = SeedTerminations
    /\ payroll_entries = <<>>
    /\ activity_log = <<>>
    /\ documents = <<>>
    /\ generated_documents = <<>>
    /\ incident_details = <<>>
    /\ doctor_details = <<>>

\* The session has writes left.
CanWrite == Len(activity_log) < MaxOps

StoreNext ==
    \/ \E target \in FormPages : Navigate(target)
    \/ RenderDashboard
    \/ ClickExpiredCocs
    \/ RenderCocTracker
    \/ RenderTerminations
    \/ \E case_id \in StoreDetailCases \cup MissingCaseIds : RenderCaseDetail(case_id)
    \/ /\ CanWrite
       /\ \E selected_docs \in DocSelections : GenerateDocuments(form.case_id, selected_docs)
    \/ RenderCasePayrollTab
    \/ /\ CanWrite
       /\ \E coc \in CocSubmissions :
             AddCocCaseDetail(coc[1], coc[2], coc[3], coc[4], coc[5])
    \/ /\ CanWrite
       /\ \E new_cap \in QuickEditCapacities : QuickEditCase(new_cap)
    \/ /\ CanWrite
       /\ \E selected_name \in EditCaseNames, edit_status \in EditCaseStatuses :
             LET defaults == EditCaseDefaults(cases[CasesNamed(selected_name)[1]])
             IN  EditCase(selected_name, defaults.edit_capacity, defaults.edit_piawe,
                          defaults.edit_reduction, edit_status)
    \/ /\ CanWrite
       /\ \E selected_case \in CocWorkerInputs, coc \in CocSubmissions :
             AddCocTracker(selected_case, coc[1], coc[2], coc[3], coc[4], coc[5], "")
    \/ /\ CanWrite
       /\ \E sel \in TerminationWorkerInputs : InitiateTermination(sel, "Show Cause", "HR")
    \/ /\ CanWrite
       /\ \E id \in 1..Len(terminations), u_status \in TerminationStatuses :
             UpdateTermination(id, u_status, TRUE, u_status = "Completed", FALSE)
    \/ /\ CanWrite
       /\ \E sel_case \in StorePayWorkers, period \in PayPeriods,
             pay_wages \in StorePayWages :
             PayrollCalculateAndSave(sel_case, period[1], period[2],
                                     default_piawe(cases[sel_case]),
                                     default_rate(cases[sel_case]), 0, 0, pay_wages, 0, "")

StoreSpec == StoreInit /\ [][StoreNext]_vars

(***************************************************************************)
(* A session on the New Case page: the wizard, passed any number of times, *)
(* with MaxOps rows written to the activity log at most before the last    *)
(* create.                                                                 *)
(***************************************************************************)
WizardInit ==
    /\ today = <<2025, 6, 15>>
    /\ form = [kind |-> "new_case", wizard_step |-> 1, wizard_data |-> KeyAbsent]
    /\ view = NoView
    /\ cases = SeedCases
    /\ certificates = SeedCertificates
    /\ terminations = SeedTerminations
    /\ payroll_entries = <<>>
    /\ activity_log = <<>>
    /\ documents = <<>>
    /\ generated_documents = <<>>
    /\ incident_details = <<>>
    /\ doctor_details = <<>>

WizardNext ==
    \/ \E wiz_name \in WizardNames, wiz_description \in WizardDescriptions :
          WizardStep1Submit(wiz_name, "VIC", wiz_description)
    \/ WizardBackToStep1
    \/ \E wiz_doc_name \in WizardDoctors, wiz_capacity \in WizardCapacities,
          wiz_piawe \in WizardPiawe :
          WizardStep2Submit(wiz_doc_name, today, AddDays(today, 28), wiz_capacity, 0, 0,
                            wiz_piawe, "95%")
    \/ WizardBackToStep2
    \/ WizardCancel
    \/ /\ CanWrite
       /\ \E selected_docs \in WizardDocSelections : WizardCreateCase(selected_docs)
    \/ WizardOpenCase

WizardSpec == WizardInit /\ [][WizardNext]_vars

(***************************************************************************)
(* Certificate status (coc_status).                                        *)
(***************************************************************************)
\* C1: for a parseable end date and delta = (cert_to - today).days,
\* coc_status returns EXPIRED (reporting |delta|) iff delta < 0, EXPIRING
\* (reporting delta) iff 0 <= delta <= 7, Current iff delta > 7; and it
\* returns "No COC" iff no end date is given.
C1_CocStatusByDelta ==
    view.kind = "coc_status" =>
        LET s == view.cert_to_str
            status == view.result[1]
        IN  /\ (status[1] = "No COC") <=> (s.type = "NoneType" \/ s.form = "empty")
            /\ Parseable(s) =>
                 LET delta == DaysBetween(<<s.y, s.m, s.d>>, today)
                 IN  /\ (status[1] = "EXPIRED") <=> (delta < 0)
                     /\ (status[1] = "EXPIRING") <=> (0 <= delta /\ delta <= 7)
                     /\ (status[1] = "Current") <=> (delta > 7)
                     /\ status[1] = "EXPIRED" => status[2] = -delta
                     /\ status[1] \in {"EXPIRING", "Current"} => status[2] = delta

\* The certificate ends today and is reported as expiring in 0 days.
C1_Witness ==
    /\ view.kind = "coc_status"
    /\ Parseable(view.cert_to_str)
    /\ <<view.cert_to_str.y, view.cert_to_str.m, view.cert_to_str.d>> = today
    /\ view.result = <<<<"EXPIRING", 0>>, "orange">>

(***************************************************************************)
(* Compensation: PIAWE Calculator page and Payroll page.                   *)
(***************************************************************************)
\* The last handler was one of the two compensation computations.
IsCompensationView == view.kind \in {"piawe_calc", "payroll_entry"}

\* piawe * rate / 100 with nothing rounded, for a piawe of whole cents
ExactProduct(amount, rate) == (amount \div MoneyUnit) * rate * (MoneyUnit \div 100)

\* C2: whenever current earnings are > 0, every compensation computation
\* (calculator and Payroll "Calculate & Save") yields
\* compensation = max(0, entitlement - earnings * rate).
C2_CompensationAppliesRateToEarnings ==
    (IsCompensationView /\ view.earnings > 0) =>
        LET shortfall == view.entitled - ExactProduct(view.earnings, view.rate)
        IN  view.compensation = IF shortfall > 0 THEN shortfall ELSE 0

C4_TopUp ==
    /\ (IsCompensationView /\ view.earnings > 0) =>
           view.top_up = IF view.entitled > view.earnings
                         THEN view.entitled - view.earnings ELSE 0
    /\ (view.kind = "piawe_calc" /\ view.shows_top_up) => view.earnings < view.entitled

\* PIAWE 1000, rate 0.80, earnings 400: a top-up of 400 is reported.
C4_Witness ==
    /\ view.kind = "piawe_calc"
    /\ view.entitled = Dollars(800) /\ view.earnings = Dollars(400)
    /\ view.top_up = Dollars(400) /\ view.shows_top_up

\* C5: in every compensation computation total_payable = earnings +
\* compensation + back-pay and expenses, and the payroll entry stored by
\* "Calculate & Save" carries that total with the compensation and top-up
\* it was computed from.
C5_TotalPayable ==
    /\ IsCompensationView =>
           view.total = view.earnings + view.compensation + view.backpay
    /\ view.kind = "payroll_entry" =>
           LET e == payroll_entries[Len(payroll_entries)]
           IN  /\ e.total_payable = view.total
               /\ e.compensation_payable = view.compensation
               /\ e.top_up = view.top_up
               /\ e.estimated_wages = view.earnings
               /\ e.back_pay_expenses = view.backpay
    /\ \A i \in 1..Len(payroll_entries) :
           payroll_entries[i].total_payable =
               payroll_entries[i].estimated_wages
                   + payroll_entries[i].compensation_payable
                   + payroll_entries[i].back_pay_expenses

\* An entry was saved with wages, compensation and back-pay all non-zero.
C5_Witness ==
    /\ view.kind = "payroll_entry"
    /\ Len(payroll_entries) > 0
    /\ view.earnings > 0 /\ view.compensation > 0 /\ view.backpay > 0
    /\ payroll_entries[Len(payroll_entries)].total_payable
           = view.earnings + view.compensation + view.backpay

\* The rate a reduction-rate label stands for.
RateOfLabel(label) == CASE label = "95%" -> 95 [] label = "80%" -> 80 [] OTHER -> 0

\* C6: for all PIAWE >= 0 and rate in {0, 0.80, 0.95} the entitlement used
\* by every page equals PIAWE * rate with no intermediate rounding, where
\* the label 95% maps to 0.95, 80% to 0.80 and anything else to 0.
C6_EntitlementExact ==
    /\ (IsCompensationView /\ view.piawe >= 0 /\ view.rate \in {0, 80, 95}) =>
           view.entitled = ExactProduct(view.piawe, view.rate)
    /\ view.kind = "piawe_calc" => view.rate \in {80, 95}
    /\ view.kind = "payroll_entry" =>
           view.default_rate = RateOfLabel(cases[view.case_id].reduction_rate)
    /\ \A row \in (IF view.kind = "case_payroll_tab" THEN {view.row}
                   ELSE IF view.kind = "piawe_summary"
                   THEN {view.rows[id] : id \in DOMAIN view.rows} ELSE {}) :
           row.shows = "entitlement" =>
               /\ row.reduction_rate \in {"95%", "80%"}
               /\ row.entitled =
                      Some(ExactProduct(row.piawe[1], RateOfLabel(row.reduction_rate)))

\* An entitlement that is not a whole number of cents: 333.33 * 0.95.
C6_Witness ==
    /\ view.kind = "piawe_calc"
    /\ view.piawe = Cents(33333) /\ view.rate = 95
    /\ view.entitled % MoneyUnit # 0

\* C7: compensation under modified duties (earnings > 0) is never
\* negative, for every PIAWE and rate the input forms accept.
C7_CompensationNonNegative ==
    (IsCompensationView /\ view.earnings > 0) => view.compensation >= 0

\* Earnings above the entitlement: the compensation is floored at 0.
C7_Witness ==
    /\ view.kind = "payroll_entry"
    /\ view.earnings > view.entitled
    /\ view.compensation = 0

\* C8: when PIAWE <= 0 or the rate is not one of {0.80, 0.95, 0}, the
\* entitlement is 0 and so is the compensation derived from it, for every
\* PIAWE and rate the Payroll and Calculator forms accept.
C8_EntitlementZeroOnBadInput ==
    (IsCompensationView /\ (view.piawe <= 0 \/ view.rate \notin {0, 80, 95})) =>
        /\ view.entitled = 0
        /\ view.compensation = 0

(***************************************************************************)
(* Progressive schedule (_build_progressive_hours).                        *)
(***************************************************************************)
\* The hours the schedule is built from: the argument, or 3 / 38 when the
\* argument is absent or not positive.
EffectiveCurrent ==
    IF view.current_hours = NULL \/ view.current_hours[1] <= 0
    THEN Hours(3) ELSE view.current_hours[1]

EffectiveTarget ==
    IF view.pre_injury_hours = NULL \/ view.pre_injury_hours[1] <= 0
    THEN Hours(38) ELSE view.pre_injury_hours[1]

\* h is given to at most one decimal place.
OneDecimal(h) == h % Tenth = 0

\* r is h rounded to one decimal place.
IsRounded(r, h) == OneDecimal(r) /\ 2 * (r - h) < Tenth /\ 2 * (h - r) < Tenth

NonDecreasing(sch) == \A i \in 1..(Len(sch) - 1) : sch[i] <= sch[i + 1]

C10_FirstEntryIsCurrent ==
    (/\ view.kind = "progressive_hours"
     /\ view.current_hours # NULL /\ view.pre_injury_hours # NULL
     /\ view.current_hours[1] > 0 /\ view.pre_injury_hours[1] > 0) =>
        view.schedule[1] = view.current_hours[1]

\* C10 amended: for positive current_hours and target_hours, hours[0] is
\* min(current_hours, target_hours) rounded to one decimal place; it equals
\* current_hours when current_hours <= target_hours and current_hours has
\* at most one decimal place.
C10_FirstEntryIsRoundedMin ==
    (/\ view.kind = "progressive_hours"
     /\ view.current_hours # NULL /\ view.pre_injury_hours # NULL
     /\ view.current_hours[1] > 0 /\ view.pre_injury_hours[1] > 0) =>
        LET c == view.current_hours[1]
            t == view.pre_injury_hours[1]
        IN  /\ IsRounded(view.schedule[1], IF c <= t THEN c ELSE t)
            /\ (c <= t /\ OneDecimal(c)) => view.schedule[1] = c

\* current_hours 56 above target_hours 38: the first week is 38, not 56.
C10_Witness ==
    /\ view.kind = "progressive_hours"
    /\ view.current_hours = Some(Hours(56))
    /\ view.pre_injury_hours = Some(Hours(38))
    /\ view.schedule[1] = Hours(38)

(***************************************************************************)
(* Return-to-work plan (generate_rtw_plan, _get_suitable_level).           *)
(***************************************************************************)
\* C11: in the RTW plan each week w in 0..3 gets its duty level by this
\* rule, tested in this order: hours at or below the current-hours baseline
\* keep the starting level; else hours >= 90% of target give level 4;
\* otherwise the level is min(starting_level + w, 4).
C11_WeekLevelRule ==
    view.kind = "rtw_plan" =>
        \A w \in 0..3 :
            LET h == view.schedule[w + 1]
                lvl == view.week_levels[w + 1]
                atBaseline == h <= view.current_hours
                nearTarget == 10 * h >= 9 * view.pre_injury_hours
                stepped == IF view.level + w < 4 THEN view.level + w ELSE 4
            IN  /\ atBaseline => lvl = view.level
                /\ (~atBaseline /\ nearTarget) => lvl = 4
                /\ (~atBaseline /\ ~nearTarget) => lvl = stepped

\* Modified duties at 7.5 h x 5 days against 38 h: week 1 is at the
\* baseline and already above 90% of target, and keeps level 2; week 2 is
\* above the baseline and gets level 4.
C11_Witness ==
    /\ view.kind = "rtw_plan"
    /\ view.level = 2
    /\ view.schedule[1] <= view.current_hours
    /\ 10 * view.schedule[1] >= 9 * view.pre_injury_hours
    /\ view.week_levels[1] = 2
    /\ view.week_levels[2] = 4

\* The level the capacity-to-level mapping is stated to give.
StatedLevel(capacity) ==
    IF capacity = NULL THEN 2
    ELSE LET cap == Lower(Chars(capacity[1]))
         IN  IF Contains(cap, KwNoCapacity) THEN 1
             ELSE IF Contains(cap, KwModified) THEN 2
             ELSE IF Contains(cap, KwFull) \/ Contains(cap, KwClearance)
                     \/ Contains(cap, KwCleared) THEN 4
             ELSE 2

\* C12: _get_suitable_level maps a capacity label, case-insensitively by
\* substring, to 1 if it contains 'no capacity', 2 if it contains
\* 'modified', 4 if it contains 'full', 'clearance' or 'cleared', and 2 for
\* anything else, an absent (None/empty) or unknown label included.
C12_SuitableLevelMapping ==
    view.kind = "suitable_level" => view.level = StatedLevel(view.capacity)

\* C13 as claimed: with no usable hours-per-day the baseline is 3 x the
\* certified days/week, and 3 when days/week is absent as well; the
\* baseline handed to the schedule is never <= 0.
C13_BaselineThreeWhenDaysAbsent ==
    view.kind = "rtw_plan" =>
        /\ ~Truthy(view.hours_per_day) =>
               view.current_hours =
                   IF Truthy(view.days_per_week)
                   THEN Hours(3 * view.days_per_week[1]) ELSE Hours(3)
        /\ view.current_hours > 0

\* C13 amended: with no usable hours-per-day (absent or 0) the baseline is
\* 3 x the certified days/week when that is a positive number, and 9
\* (3 x a default of 3 days) when days/week is absent or 0; for
\* certificates with non-negative hours and days the baseline handed to the
\* schedule is never <= 0.
C13_BaselineNineWhenDaysAbsent ==
    view.kind = "rtw_plan" =>
        /\ ~Truthy(view.hours_per_day) =>
               view.current_hours =
                   IF Truthy(view.days_per_week)
                   THEN Hours(3 * view.days_per_week[1]) ELSE Hours(9)
        /\ view.current_hours > 0
        /\ view.schedule[1] > 0

\* Neither hours/day nor days/week on the certificate: the baseline is 9.
C13_Witness ==
    /\ view.kind = "rtw_plan"
    /\ view.hours_per_day = NULL
    /\ view.days_per_week = NULL
    /\ view.current_hours = Hours(9)

(***************************************************************************)
(* The alert list of the Dashboard.                                        *)
(***************************************************************************)
Severities == {"URGENT", "WARNING", "ACTION", "INFO"}

\* The alerts of one severity, in the order of the list.
OfSeverity(alerts, severity) == SelectSeq(alerts, LAMBDA a : a.severity = severity)

\* C14: the alert list the dashboard shows has every URGENT alert before
\* every WARNING, every WARNING before every ACTION and every ACTION before
\* every INFO, and the alerts of one severity are in the order in which they
\* were appended.
C14_AlertsOrderedBySeverity ==
    view.kind = "dashboard" =>
        /\ Len(view.shown) = Len(view.alerts)
        /\ \A i, j \in 1..Len(view.shown) :
               i < j => SeverityRank(view.shown[i].severity)
                            <= SeverityRank(view.shown[j].severity)
        /\ \A severity \in Severities :
               OfSeverity(view.shown, severity) = OfSeverity(view.alerts, severity)

\* A dashboard with alerts of all four severities and two of one severity.
C14_Witness ==
    /\ view.kind = "dashboard"
    /\ \A severity \in Severities : Len(OfSeverity(view.shown, severity)) >= 2

\* What the alerts are about, read from the store on the day of the view.
DaysLeft(cert_id) == DaysBetween(ParseDate(certificates[cert_id].cert_to), today)

ExpiredCocs == {i \in Range(get_latest_cocs) : DaysLeft(i) < 0}

ExpiringCocs == {i \in Range(get_latest_cocs) : DaysLeft(i) \in 0..7}

HasCertificate(case_id) == \E i \in 1..Len(certificates) : certificates[i].case_id = case_id

NoCocCases(scope) ==
    {id \in scope : ~HasCertificate(id) /\ cases[id].current_capacity # "Full Capacity"}

PendingTerminations ==
    {t \in 1..Len(terminations) : terminations[t].status = "Pending"}

MissingPiaweCases(scope) ==
    {id \in scope : /\ cases[id].piawe = NULL
                    /\ cases[id].current_capacity # "Full Capacity"
                    /\ cases[id].reduction_rate # "N/A"}

\* An alert as <<severity, what it says, case>>.
AlertKeys(alerts) == {<<a.severity, a.message, a.case_id>> : a \in Range(alerts)}

ExpectedAlertKeys(scope) ==
    {<<"URGENT", "EXPIRED", certificates[i].case_id>> : i \in ExpiredCocs}
        \cup {<<"WARNING", "EXPIRING", certificates[i].case_id>> : i \in ExpiringCocs}
        \cup {<<"WARNING", "No COC on record", id>> : id \in NoCocCases(scope)}
        \cup {<<"ACTION", "Termination pending", terminations[t].case_id>> :
                 t \in PendingTerminations}
        \cup {<<"INFO", "PIAWE data missing", id>> : id \in MissingPiaweCases(scope)}

ExpectedAlertCount(scope) ==
    Cardinality(ExpiredCocs) + Cardinality(ExpiringCocs) + Cardinality(NoCocCases(scope))
        + Cardinality(PendingTerminations) + Cardinality(MissingPiaweCases(scope))

\* The dashboard's alerts are one per expected item, over the cases of scope.
AlertsExactlyFor(scope) ==
    view.kind = "dashboard" =>
        /\ AlertKeys(view.alerts) = ExpectedAlertKeys(scope)
        /\ Len(view.alerts) = ExpectedAlertCount(scope)
        /\ AlertKeys(view.shown) = AlertKeys(view.alerts)

\* C15 as claimed: the dashboard produces an URGENT alert exactly for each
\* expired latest COC, a WARNING exactly for each latest COC expiring within
\* 7 days and for each case with no COC and a capacity other than Full
\* Capacity, an ACTION exactly for each Pending termination, an INFO exactly
\* for each case with missing PIAWE, a capacity other than Full Capacity and
\* a reduction rate, and no other alert.
C15_AlertsForEveryCase == AlertsExactlyFor(DOMAIN cases)

\* C15 amended: as above, with the no-COC WARNING and the missing-PIAWE INFO
\* produced for Active cases only (and for a reduction rate other than
\* "N/A").
C15_AlertsForActiveCases == AlertsExactlyFor(active)

\* A dashboard with a no-COC warning and a missing-PIAWE note, built from a
\* store that also holds a case that is not Active, without a certificate
\* and without full capacity.
C15_Witness ==
    /\ view.kind = "dashboard"
    /\ \E a \in Range(view.alerts) : a.message = "No COC on record"
    /\ \E a \in Range(view.alerts) : a.message = "PIAWE data missing"
    /\ \E a \in Range(view.alerts) : a.message = "EXPIRING"
    /\ NoCocCases(DOMAIN cases) \ active # {}

\* The place of a case in the order of get_cases_df: state, then worker name.
CaseKey(case_id) == PairKey(cases[case_id].state, cases[case_id].worker_name)

\* The alerts of every severity are in the order `before` of their places.
TierOrdered(alerts, before(_, _)) ==
    \A i, j \in 1..Len(alerts) :
        (i < j /\ alerts[i].severity = alerts[j].severity) => before(alerts[i], alerts[j])

InCaseOrder(a, b) == CaseKey(a.case_id) <= CaseKey(b.case_id)

\* The order in which the alerts of one severity are met: COC alerts by the
\* end date of the certificate (the longest expired first, the soonest to
\* expire first) and before the no-COC alerts, termination alerts by worker
\* name, no-COC and PIAWE alerts in the order of the cases.
InEncounterOrder(a, b) ==
    CASE a.message = "EXPIRED" -> a.days >= b.days
      [] a.message = "EXPIRING" -> b.message = "EXPIRING" => a.days <= b.days
      [] a.message = "No COC on record" ->
             b.message = "No COC on record" /\ InCaseOrder(a, b)
      [] a.message = "Termination pending" -> TextRank(a.worker) <= TextRank(b.worker)
      [] a.message = "PIAWE data missing" -> InCaseOrder(a, b)

\* C16 as claimed: within each severity tier of the dashboard alert list the
\* alerts appear in case order, by state then worker name.
C16_TiersInCaseOrder ==
    view.kind = "dashboard" => TierOrdered(view.shown, InCaseOrder)

\* C16 amended: within each severity tier the alerts appear in the order in
\* which they were met: URGENT by ascending end date of the latest COC;
\* WARNING the expiring COCs by ascending end date, then the no-COC cases by
\* state then worker name; ACTION by worker name; INFO by state then
\* worker name.
C16_TiersInEncounterOrder ==
    view.kind = "dashboard" => TierOrdered(view.shown, InEncounterOrder)

\* A dashboard whose URGENT tier has two expired COCs, the longer expired
\* one of the case that comes later in case order, and two alerts in each
\* of the other tiers.
C16_Witness ==
    /\ view.kind = "dashboard"
    /\ \A severity \in Severities : Len(OfSeverity(view.shown, severity)) >= 2
    /\ \E i, j \in 1..Len(view.shown) :
           /\ i < j
           /\ view.shown[i].message = "EXPIRED"
           /\ view.shown[j].message = "EXPIRED"
           /\ view.shown[i].days > view.shown[j].days
           /\ CaseKey(view.shown[i].case_id) > CaseKey(view.shown[j].case_id)

(***************************************************************************)
(* Certificates and the capacity of the case.                              *)
(***************************************************************************)
CertsOf(case_id) == {i \in 1..Len(certificates) : certificates[i].case_id = case_id}

\* The certificates of a case that no certificate of the case ends after.
EndingLast(case_id) ==
    {i \in CertsOf(case_id) :
        \A j \in CertsOf(case_id) :
            DateKey(certificates[j].cert_to) <= DateKey(certificates[i].cert_to)}

\* C17: after an Add COC on the case detail tab or on the COC Tracker page,
\* the current_capacity of the case is the capacity of its certificate with
\* the greatest cert_to, whatever the end date of the certificate added.
C17_CapacityOfLatestCoc ==
    view.kind = "coc_added" =>
        \E i \in EndingLast(view.case_id) :
            cases[view.case_id].current_capacity = certificates[i].capacity

\* The places of the rows of a case in a list of certificates.
RowsOfCase(cocs, case_id) == {k \in 1..Len(cocs) : certificates[cocs[k]].case_id = case_id}

C19_LedgerAppendOnly ==
    [][/\ Len(payroll_entries') >= Len(payroll_entries)
       /\ SubSeq(payroll_entries', 1, Len(payroll_entries)) = payroll_entries]_vars

\* A payroll entry was saved and a second one after it, for the same case
\* and period with other wages; the first is as it was saved.
C19_Witness ==
    /\ Len(payroll_entries) = 2
    /\ payroll_entries[1].case_id = payroll_entries[2].case_id
    /\ payroll_entries[1].period_to = payroll_entries[2].period_to
    /\ payroll_entries[1].estimated_wages # payroll_entries[2].estimated_wages
    /\ activity_log[1].action = "Payroll Entry"
    /\ activity_log[2].action = "Payroll Entry"

\* C20: after any sequence of Calculate & Save, a case has at most one
\* payroll entry per pay period: no two entries of one case have the same
\* period_from and period_to.
C20_OneEntryPerPeriod ==
    \A i, j \in 1..Len(payroll_entries) :
        (/\ payroll_entries[i].case_id = payroll_entries[j].case_id
         /\ payroll_entries[i].period_from = payroll_entries[j].period_from
         /\ payroll_entries[i].period_to = payroll_entries[j].period_to) => i = j

(***************************************************************************)
(* coc_status on every kind of input.                                      *)
(***************************************************************************)
\* C22: coc_status is total: for None, '', a malformed text, a value that is
\* not a str and a valid date it returns a (status, colour) pair and never
\* raises; an input that is present but does not parse as a date gives
\* 'Invalid Date'.
C22_CocStatusTotal ==
    view.kind = "coc_status" =>
        /\ view.result[1][1] \in {"No COC", "Invalid Date", "EXPIRED", "EXPIRING", "Current"}
        /\ view.result[2] \in {"red", "orange", "green", "gray"}
        /\ (~Falsy(view.cert_to_str) /\ ~Parseable(view.cert_to_str)) =>
               view.result = <<<<"Invalid Date">>, "gray">>

\* The NaN of a NULL column went through coc_status: strptime raised
\* TypeError and the result is 'Invalid Date'.
C22_Witness ==
    /\ view.kind = "coc_status"
    /\ view.cert_to_str = NaN
    /\ view.result = <<<<"Invalid Date">>, "gray">>

(***************************************************************************)
(* The two pages' compensation with no earnings.                           *)
(***************************************************************************)
\* The PIAWE values and rates both pages can be given.
ComparedPiawe == {f.calc_piawe : f \in CalcForms}

ComparedRates == {CalcRate(period) : period \in CalcPeriods}

\* On these inputs the calculator and the Payroll page give another float.
PagesDiffer(piawe, rate, days) ==
    CalcCompensationNoCapacityFloat(EntitledFloat(piawe, rate), days)
        # PayCompensationNoWagesFloat(EntitledFloat(piawe, rate), days)

\* The inputs on which they do.
DifferingInputs ==
    {input \in ComparedPiawe \X ComparedRates \X (1..14) :
        PagesDiffer(input[1], input[2], input[3])}

\* C24: with zero current earnings there are inputs (a PIAWE, a rate and a
\* day count the calculator accepts, 1..14) for which the compensation of
\* the PIAWE Calculator page (entitled * days/5, entitled * 2 at 10 days)
\* differs from the compensation of the Payroll page (entitled/5 * days);
\* they are the inputs on which the compensation the calculator shows is
\* not the one the Payroll page computes.
C24_PagesDifferOnSomeInput ==
    /\ DifferingInputs # {}
    /\ (view.kind = "piawe_calc" /\ view.earnings = 0) =>
           ((<<view.piawe, view.rate, view.days>> \in DifferingInputs)
               <=> (view.compensation_float[1]
                       # PayCompensationNoWagesFloat(EntitledFloat(view.piawe, view.rate),
                                                     view.days)))

\* The calculator showing, for no earnings, a compensation that is a cent
\* below what the Payroll page saves for the same PIAWE, rate and days.
C24_Witness ==
    /\ view.kind = "piawe_calc"
    /\ view.earnings = 0
    /\ PagesDiffer(view.piawe, view.rate, view.days)
    /\ FloatCents(view.compensation_float[1])
           # FloatCents(PayCompensationNoWagesFloat(EntitledFloat(view.piawe, view.rate),
                                                   view.days))

(***************************************************************************)
(* The dashboard and the cases that are not Active.                        *)
(***************************************************************************)
\* C30: every alert shown on the dashboard, about a COC, a termination or a
\* missing PIAWE, refers to a case whose status is Active; a case that is
\* Closed or Pending Closure produces no alert.
C30_AlertsReferToActiveCases ==
    view.kind = "dashboard" =>
        \A k \in 1..Len(view.shown) : cases[view.shown[k].case_id].status = "Active"

\* C29: the number on the "Expired COCs" metric is the number of cases
\* listed when its filter is selected: every case counted in expired_count
\* is in the list "Cases with Expired / Missing COCs", and every case of the
\* list is counted.
C29_ExpiredMetricMatchesList ==
    view.kind = "dashboard_expired_coc" =>
        /\ view.expired_count = Len(view.filtered)
        /\ Range(view.filtered) = view.expired_case_ids

(***************************************************************************)
(* The capacity of a case.                                                 *)
(***************************************************************************)
\* C23: after any sequence of operations (Quick Edit, Edit Case, Add COC on
\* the case detail tab or on the COC Tracker page) the current_capacity of
\* every case is one of No Capacity, Modified Duties, Full Capacity,
\* Uncertain, Unknown.
C23_CapacityInEnum ==
    \A id \in DOMAIN cases : cases[id].current_capacity \in Range(CapacityOptions)

(***************************************************************************)
(* Terminations.                                                           *)
(***************************************************************************)
TerminationsOf(case_id) == {t \in 1..Len(terminations) : terminations[t].case_id = case_id}

\* C28: after any sequence of Initiate Termination and Update Progress,
\* from a store with at most one termination record per case, every case has
\* at most one termination record, of whatever status; a case that has a
\* record is not among the workers the Initiate Termination form offers,
\* also when its record is Completed or Cancelled.
C28_OneTerminationPerCase ==
    /\ \A id \in DOMAIN cases : Cardinality(TerminationsOf(id)) <= 1
    /\ view.kind = "terminations" =>
           \A k \in 1..Len(view.available) : TerminationsOf(view.available[k]) = {}

\* The Terminations page after a record was closed and another initiated:
\* an Active case whose record is Completed or Cancelled is not offered.
C28_Witness ==
    /\ view.kind = "terminations"
    /\ Len(terminations) > Len(SeedTerminations)
    /\ view.available # <<>>
    /\ \E t \in 1..Len(terminations) :
           /\ terminations[t].status \in {"Completed", "Cancelled"}
           /\ cases[terminations[t].case_id].status = "Active"
           /\ terminations[t].case_id \notin Range(view.available)

(***************************************************************************)
(* A case id that names no case.                                           *)
(***************************************************************************)
\* C25: the case detail view and the document-generation view, run for a
\* case id that does not exist, report "Case not found" and return: the case
\* is not rendered and no row of any table is inserted or updated.
C25_MissingCaseNotFound ==
    [][(form'.kind = "case_detail" /\ form'.case_id \notin DOMAIN cases) =>
           /\ view'.kind = "error"
           /\ view'.message = "Case not found"
           /\ UNCHANGED store]_vars

\* The document generation was run for an id that names no case, in a
\* session that had written to the store before.
C25_Witness ==
    /\ form.kind = "case_detail"
    /\ form.case_id \notin DOMAIN cases
    /\ view = CaseNotFound("render_generate_documents", form.case_id)
    /\ activity_log # <<>>

(***************************************************************************)
(* Unknown fields of the generated documents.                              *)
(***************************************************************************)
StartsWith(chars, prefix) ==
    Len(chars) >= Len(prefix) /\ SubSeq(chars, 1, Len(prefix)) = prefix

\* A text that is not blank and begins with [REQUIRED] or [REVIEW].
IsMarked(chars) == StartsWith(chars, MarkerRequired) \/ StartsWith(chars, MarkerReview)

\* An unknown value: None, empty, or whitespace only.
UnknownText(val) == val = NULL \/ \A i \in 1..Len(val[1]) : val[1][i] = " "

UnknownDate(val) == val \in {None, EmptyStr, BlankStr}

\* C21: in every generated document a field whose value is unknown (None,
\* empty or whitespace only) is rendered as a non-blank text that begins
\* with [REQUIRED] or [REVIEW], and generation does not raise for a missing
\* or blank field, a missing or whitespace-only worker name in the letter to
\* the worker included.
C21_UnknownFieldsMarked ==
    /\ (view.kind = "fmt" /\ UnknownText(view.val)) => IsMarked(view.result)
    /\ (view.kind \in {"fmt_date", "rtw_review_date"} /\ UnknownDate(view.val)) =>
           (view.result.kind = "marker" /\ IsMarked(view.result.chars))
    /\ view.kind = "letter_greeting" =>
           /\ view.result.raised = "none"
           /\ UnknownText(view.worker_name) => IsMarked(view.result.chars)

(***************************************************************************)
(* The New Case wizard.                                                    *)
(***************************************************************************)
\* C26: each pass through the wizard creates at most one case: once "Create
\* Case & Generate Documents" has inserted a case, the wizard is no longer
\* at step 3 with the same wizard_data, so that a further click on the
\* button cannot insert a second case from the same data.
C26_CreateEndsThePass ==
    view.kind = "wizard_created" =>
        ~(form.wizard_step = 3 /\ form.wizard_data = KeyPresent(view.wizard_data))

\* C27: wizard_step is 1, 2 or 3; at step 2 and 3 wizard_data exists and
\* holds a non-empty worker_name and a non-empty injury_description; Cancel
\* returns to step 1 and removes wizard_data; Back lowers the step by one
\* and changes nothing else.
C27_WizardStateWellFormed ==
    [][/\ form'.wizard_step \in {1, 2, 3}
       /\ form'.wizard_step \in {2, 3} =>
              /\ form'.wizard_data # KeyAbsent
              /\ DictGet(form'.wizard_data.value, "worker_name", NULL) \notin {NULL, Some("")}
              /\ DictGet(form'.wizard_data.value, "injury_description", NULL)
                     \notin {NULL, Some("")}
       /\ (view'.kind = "wizard" /\ view'.handler = "cancel") =>
              (form'.wizard_step = 1 /\ form'.wizard_data = KeyAbsent)
       /\ (view'.kind = "wizard" /\ view'.handler = "back") =>
              /\ form'.wizard_step = form.wizard_step - 1
              /\ form'.wizard_data = form.wizard_data
              /\ UNCHANGED store]_vars

\* The wizard back at step 2 from step 3 with the data of both steps, a case
\* created from them.
C27_Witness ==
    /\ form.kind = "new_case"
    /\ view.kind = "wizard"
    /\ view.handler = "back"
    /\ form.wizard_step = 2
    /\ form.wizard_data # KeyAbsent
    /\ form.wizard_data.value["piawe"] # KeyAbsent
    /\ Cardinality(DOMAIN cases) > Cardinality(CaseIds)

====
